---------------------------- MODULE Spec2Model ----------------------------
(***************************************************************************)
(* mibsh: the SNMP operation engine (internal/snmp/ops.go, session.go),    *)
(* the result history (internal/snmp/result.go, result_pane.go) and the    *)
(* handlers of the bubbletea update loop that drive them (app_snmp.go,     *)
(* app_update.go, app_keys.go).                                            *)
(*                                                                         *)
(* The update loop handles one message at a time.  Every tea.Cmd runs in   *)
(* a goroutine of its own and hands its message back to the loop, so the   *)
(* commands in flight (cmds) and the messages not yet handled (msgs) are   *)
(* bags: nothing orders the messages of two different commands.            *)
(***************************************************************************)
EXTENDS Integers, Sequences, FiniteSets, Bags, TLC

(***************************************************************************)
(* Bounds of the model.                                                    *)
(***************************************************************************)
\* Spec, the whole program: walks started, connect commands issued, values
\* the walk primitive hands to walkFn (all walks together), GET / GETNEXT /
\* table commands issued, disconnect commands issued.
MaxWalks == 1
MaxConnects == 1
MaxVals == 2
MaxOps == 1
MaxDisconnects == 1
\* SpecWalk, one walk and its consumer: values handed to walkFn.
WalkVals == 5
\* SpecReconnect, walks across disconnect and reconnect: a run has either
\* ReconnectWalks walks with ReconnectVals values handed to walkFn, or
\* ReuseWalks walks that end without a value.
ReconnectWalks == 2
ReconnectVals == 3
ReuseWalks == 3
\* SpecReconnect: connect commands issued.
ReconnectConnects == 2
\* SpecNav, walks while the user browses the history: walks started, simple
\* commands issued and values handed to walkFn.
NavWalks == 2
NavOps == 1
NavVals == 2
\* SpecOps, the commands of the package called on any session: commands
\* issued.
OpsCmds == 2
\* SpecHistory, ResultHistory alone: calls of Add.
HistAdds == 5
\* SpecTable, the collector of a table walk: values handled by handlePDU
\* and calls of buildTableSchema.
TablePDUs == 3
TableBuilds == 2
\* SpecTree, the result tree of one group: results inserted.
TreeInserts == 4
\* SpecTreeBatch, the result pane in and out of tree mode: results of the
\* group and the longest batch appended at once.
BatchResults == 3
BatchLen == 2
\* SpecDisconnect, disconnects of any session: calls of DisconnectCmd.
DiscCalls == 3
\* SpecClone, the memory of the producer's batches: values of the walk.
CloneVals == 8
\* const walkBatchSize = 100 (ops.go:107), checked at a small size
walkBatchSize == 2
\* make(chan walkBatch, 8) (ops.go:113), checked at a small size
walkChanCap == 1
\* const resultHistoryCapacity = 50 (result.go:33), checked at a small size
resultHistoryCapacity == 3

Nil == 0

VARIABLES
    snmp,        \* model.snmp: the session the UI holds, or Nil
    walk,        \* model.walk: the active walk handle, or Nil
    walkStatus,  \* model.results.walkStatus
    history,     \* model.results.history: [groups, cursor]
    status,      \* model.status.current, the last status set
    tableData,   \* model.tableData, as far as the handlers set it
    sessions,    \* every Session created so far, by id
    walks,       \* every WalkSession created so far with its producer, by id
    cmds,        \* bag of commands in flight
    msgs,        \* bag of messages not yet handled by Update
    nConn,       \* connect commands issued so far
    nOps,        \* simple commands issued so far
    nDisc,       \* disconnect commands issued so far
    clientCalls, \* requests made through a gosnmp client by simple commands
    crashed,     \* a handler has panicked: the program has ended
    lim,         \* the bounds of the run: what the environment may still do
    tw,          \* a table walk: the table, its schema and its collector
    rt           \* a result tree: the walk root and the nodes of the tree

vars == <<snmp, walk, walkStatus, history, status, tableData, sessions,
          walks, cmds, msgs, nConn, nOps, nDisc, clientCalls, crashed,
          lim, tw, rt>>

BagAdd(b, e) == b (+) SetToBag({e})
BagDel(b, e) == b (-) SetToBag({e})

(***************************************************************************)
(* Session (session.go).                                                   *)
(***************************************************************************)
\* The session id s as the receiver of a method: Nil is the nil pointer.
IsConnected(s) ==
    /\ s # Nil
    /\ sessions[s].connected
    /\ sessions[s].client


(***************************************************************************)
(* Result history and result pane (result.go, result_pane.go).  A group    *)
(* carries two fields the program does not have: gid, the number of the    *)
(* Add that stored it, and owner, the walk that created it (Nil for a GET  *)
(* or GETNEXT group).  No handler reads them.                              *)
(***************************************************************************)
OpGet == "GET"
OpGetNext == "GETNEXT"
OpWalk == "WALK"

\* formatPDUToResult: the Result of one PDU (its identifier; name, value
\* and type label are functions of the PDU and the loaded MIB).
formatPDUToResult(pdu) == [OID |-> pdu]

FormatAll(pdus) == [i \in 1..Len(pdus) |-> formatPDUToResult(pdus[i])]

\* ResultHistory.Add that never drops the oldest group.
AddUnbounded(h, g) ==
    LET gs == Append(h.groups, [g EXCEPT !.gid = h.added + 1])
    IN  [groups |-> gs, cursor |-> Len(gs) - 1, added |-> h.added + 1]

\* ResultHistory.Add
Add(h, g) ==
    LET n  == Len(h.groups)
        ng == [g EXCEPT !.gid = h.added + 1]
        gs == IF n >= resultHistoryCapacity
              THEN [i \in 1..n |-> IF i < n THEN h.groups[i + 1] ELSE ng]
              ELSE Append(h.groups, ng)
    IN  [groups |-> gs, cursor |-> Len(gs) - 1, added |-> h.added + 1]

\* ResultHistory.Current: the 1-based position of the viewed group, Nil for
\* the nil pointer.
Current(h) ==
    IF Len(h.groups) = 0 \/ h.cursor < 0 \/ h.cursor >= Len(h.groups)
    THEN Nil
    ELSE h.cursor + 1

\* ResultHistory.Prev without the test of the cursor.
PrevUnguarded(h) == [h EXCEPT !.cursor = h.cursor - 1]

\* ResultHistory.Prev
Prev(h) == IF h.cursor > 0 THEN [h EXCEPT !.cursor = h.cursor - 1] ELSE h

\* ResultHistory.Next
Next(h) ==
    IF h.cursor < Len(h.groups) - 1
    THEN [h EXCEPT !.cursor = h.cursor + 1]
    ELSE h

\* resultModel.addGroup
addGroup(h, g) == Add(h, g)

\* resultModel.appendResults: appends to the group under the cursor.
appendResults(h, results) ==
    LET c == Current(h)
    IN  IF c = Nil
        THEN h
        ELSE [h EXCEPT !.groups[c].results = h.groups[c].results \o results]

NewGroup(op, results, err, owner) ==
    [op |-> op, results |-> results, err |-> err, owner |-> owner, gid |-> 0]

(***************************************************************************)
(* The walk producer: the goroutine of StartWalkCmd (ops.go:117-153).      *)
(* walks[w].pc is its position:                                            *)
(*   "walk"   inside doWalk, between two calls of walkFn                   *)
(*   "push"   inside walkFn, at the select that sends a full batch         *)
(*   "flush"  doWalk has returned; at the flush of the remaining batch     *)
(*   "term"   at the select that sends the terminal marker                 *)
(*   "done"   the channel is closed and the goroutine has ended            *)
(* The k-th value the walk primitive hands to walkFn of walk w is the PDU  *)
(* <<w, k>>.  Five fields are bookkeeping of the model, read by no action: *)
(* nAcc (the values walkFn has appended), recv (what WaitWalkCmd has       *)
(* received from the channel, in order), consumed (the data batches of     *)
(* this channel that handleWalkBatch has handled), cancelAt (consumed at   *)
(* the first call of Cancel, -1 before it) and torn (the DisconnectMsg     *)
(* case of Update has removed the walk).                                   *)
(***************************************************************************)
ErrNil == "nil"
ErrCanceled == "context canceled"
ErrTransport == "transport error"
ErrNotConnected == "not connected"
ErrNoColumns == "no columns defined"

Walks == 1..Len(walks)

NewWalk(s) ==
    [sess |-> s, ch |-> <<>>, closed |-> FALSE, ctxDone |-> FALSE,
     pc |-> "walk", batch |-> <<>>, n |-> 0, err |-> ErrNil,
     nAcc |-> 0, recv |-> <<>>, consumed |-> 0, cancelAt |-> -1,
     torn |-> FALSE]

\* CanSend with the bound of the buffer off by one.
CanSendOver(w) == Len(walks[w].ch) <= walkChanCap

\* ch <- b is ready: the buffer has room.
CanSend(w) == Len(walks[w].ch) < walkChanCap

DataBatch(pdus) == [pdus |-> pdus, done |-> FALSE, err |-> ErrNil]

ProducerFrame ==
    UNCHANGED <<snmp, walk, walkStatus, history, status, tableData, sessions,
                cmds, msgs, nConn, nOps, nDisc, clientCalls, crashed,
                lim, tw, rt>>

\* The values the walk primitive has handed to walkFn in the first k walks.
RECURSIVE Handed(_)
Handed(k) == IF k = 0 THEN 0 ELSE walks[k].n + Handed(k - 1)

\* walkFn without the test of ctx.Err() at its start.
walkFnUnchecked(w) ==
    /\ walks[w].pc = "walk"
    /\ Handed(Len(walks)) < lim.vals
    /\ LET pdu == <<w, walks[w].n + 1>>
           nb  == Append(walks[w].batch, pdu)
       IN  walks' = [walks EXCEPT ![w].n = @ + 1,
                                  ![w].nAcc = @ + 1,
                                  ![w].batch = nb,
                                  ![w].pc = IF Len(nb) >= walkBatchSize
                                            THEN "push" ELSE "walk"]
    /\ ProducerFrame

\* walkFn that pushes only when the batch has grown past walkBatchSize.
walkFnLate(w) ==
    /\ walks[w].pc = "walk"
    /\ Handed(Len(walks)) < lim.vals
    /\ LET pdu == <<w, walks[w].n + 1>>
           nb  == Append(walks[w].batch, pdu)
       IN  IF walks[w].ctxDone
           THEN walks' = [walks EXCEPT ![w].n = @ + 1,
                                       ![w].err = ErrCanceled,
                                       ![w].pc = "flush"]
           ELSE walks' = [walks EXCEPT ![w].n = @ + 1,
                                       ![w].nAcc = @ + 1,
                                       ![w].batch = nb,
                                       ![w].pc = IF Len(nb) > walkBatchSize
                                                 THEN "push" ELSE "walk"]
    /\ ProducerFrame

\* walkFn, up to the select (ops.go:120-126): the primitive hands over one
\* more value.
walkFn(w) ==
    /\ walks[w].pc = "walk"
    /\ Handed(Len(walks)) < lim.vals
    /\ LET pdu == <<w, walks[w].n + 1>>
           nb  == Append(walks[w].batch, pdu)
       IN  IF walks[w].ctxDone
           THEN \* return ctx.Err(): doWalk returns it
                walks' = [walks EXCEPT ![w].n = @ + 1,
                                       ![w].err = ErrCanceled,
                                       ![w].pc = "flush"]
           ELSE walks' = [walks EXCEPT ![w].n = @ + 1,
                                       ![w].nAcc = @ + 1,
                                       ![w].batch = nb,
                                       ![w].pc = IF Len(nb) >= walkBatchSize
                                                 THEN "push" ELSE "walk"]
    /\ ProducerFrame

\* The select of walkFn with a default case: on a full queue the batch is
\* given up and the walk goes on.
walkFnSelectDropsOnFull(w) ==
    /\ walks[w].pc = "push"
    /\ \/ /\ CanSend(w)
          /\ walks' = [walks EXCEPT
                 ![w].ch = Append(@, DataBatch(walks[w].batch)),
                 ![w].batch = <<>>,
                 ![w].pc = "walk"]
       \/ /\ ~CanSend(w)
          /\ walks' = [walks EXCEPT ![w].batch = <<>>, ![w].pc = "walk"]
       \/ /\ walks[w].ctxDone
          /\ walks' = [walks EXCEPT ![w].err = ErrCanceled, ![w].pc = "flush"]
    /\ ProducerFrame

\* The select of walkFn without batch = batch[:0] after the send.
walkFnSelectKeepsBatch(w) ==
    /\ walks[w].pc = "push"
    /\ \/ /\ CanSend(w)
          /\ walks' = [walks EXCEPT
                 ![w].ch = Append(@, DataBatch(walks[w].batch)),
                 ![w].pc = "walk"]
       \/ /\ walks[w].ctxDone
          /\ walks' = [walks EXCEPT ![w].err = ErrCanceled, ![w].pc = "flush"]
    /\ ProducerFrame

\* The select of walkFn (ops.go:127-133).
walkFnSelect(w) ==
    /\ walks[w].pc = "push"
    /\ \/ /\ CanSend(w)
          /\ walks' = [walks EXCEPT
                 ![w].ch = Append(@, DataBatch(walks[w].batch)),
                 ![w].batch = <<>>,
                 ![w].pc = "walk"]
       \/ /\ walks[w].ctxDone
          /\ walks' = [walks EXCEPT ![w].err = ErrCanceled, ![w].pc = "flush"]
    /\ ProducerFrame

\* doWalk returns nil: nothing is left under the root (ops.go:137).
doWalkEnd(w) ==
    /\ walks[w].pc = "walk"
    /\ walks' = [walks EXCEPT ![w].err = ErrNil, ![w].pc = "flush"]
    /\ ProducerFrame

\* doWalk returns an error of the transport or the protocol (ops.go:137).
doWalkFail(w) ==
    /\ walks[w].pc = "walk"
    /\ walks' = [walks EXCEPT ![w].err = ErrTransport, ![w].pc = "flush"]
    /\ ProducerFrame

\* Flush remaining results (ops.go:139-146).
flush(w) ==
    /\ walks[w].pc = "flush"
    /\ \/ /\ Len(walks[w].batch) = 0
          /\ walks' = [walks EXCEPT ![w].pc = "term"]
       \/ /\ Len(walks[w].batch) > 0
          /\ CanSend(w)
          /\ walks' = [walks EXCEPT
                 ![w].ch = Append(@, DataBatch(walks[w].batch)),
                 ![w].pc = "term"]
       \/ /\ Len(walks[w].batch) > 0
          /\ walks[w].ctxDone
          /\ walks' = [walks EXCEPT ![w].pc = "term"]
    /\ ProducerFrame

\* The terminal marker and close(ch) (ops.go:148-152).
terminate(w) ==
    /\ walks[w].pc = "term"
    /\ \/ /\ CanSend(w)
          /\ walks' = [walks EXCEPT
                 ![w].ch = Append(@, [pdus |-> <<>>, done |-> TRUE,
                                      err |-> walks[w].err]),
                 ![w].closed = TRUE,
                 ![w].pc = "done"]
       \/ /\ walks[w].ctxDone
          /\ walks' = [walks EXCEPT ![w].closed = TRUE, ![w].pc = "done"]
    /\ ProducerFrame

\* StartWalkCmd (ops.go:112-156): a new channel, context and goroutine on
\* session s, and the command that waits for the first batch.
StartWalkCmd(s) ==
    /\ walks' = Append(walks, NewWalk(s))
    /\ cmds' = BagAdd(cmds, [type |-> "wait", ch |-> Len(walks) + 1])

\* WaitWalkCmd (ops.go:159-171): the command receives from the channel and
\* hands the update loop a WalkBatchMsg.  src is the channel it came from;
\* the message of the program does not carry it.
WaitWalkCmd(w) ==
    /\ BagIn([type |-> "wait", ch |-> w], cmds)
    /\ \/ /\ Len(walks[w].ch) > 0
          /\ LET b == Head(walks[w].ch)
             IN  /\ msgs' = BagAdd(msgs, [type |-> "WalkBatchMsg",
                                          PDUs |-> b.pdus, Done |-> b.done,
                                          Err |-> b.err, src |-> w])
                 /\ walks' = [walks EXCEPT ![w].ch = Tail(@),
                                           ![w].recv = Append(@, b)]
       \/ /\ Len(walks[w].ch) = 0
          /\ walks[w].closed
          /\ msgs' = BagAdd(msgs, [type |-> "WalkBatchMsg", PDUs |-> <<>>,
                                   Done |-> TRUE, Err |-> ErrNil, src |-> w])
          /\ walks' = [walks EXCEPT
                 ![w].recv = Append(@, [pdus |-> <<>>, done |-> TRUE,
                                        err |-> ErrNil])]
    /\ cmds' = BagDel(cmds, [type |-> "wait", ch |-> w])
    /\ UNCHANGED <<snmp, walk, walkStatus, history, status, tableData,
                   sessions, nConn, nOps, nDisc, clientCalls, crashed,
                   lim, tw, rt>>


(***************************************************************************)
(* Connect and disconnect (session.go, app_update.go, app_snmp.go).        *)
(***************************************************************************)
Status(typ, text, arg) == [typ |-> typ, text |-> text, arg |-> arg]
NoStatus == Status("", "", "")

\* Update, case deviceDialogSubmitMsg (app_update.go:111-114), and Init's
\* auto-connect: a ConnectCmd is issued.
deviceDialogSubmit ==
    /\ nConn < lim.conns
    /\ cmds' = BagAdd(cmds, [type |-> "connect"])
    /\ nConn' = nConn + 1
    /\ UNCHANGED <<snmp, walk, walkStatus, history, status, tableData,
                   sessions, walks, msgs, nOps, nDisc, clientCalls, crashed,
                   lim, tw, rt>>

\* ConnectCmd (session.go:126-169): the command fails (unknown version, or
\* client.Connect fails) or creates a Session.
ConnectCmd ==
    /\ BagIn([type |-> "connect"], cmds)
    /\ cmds' = BagDel(cmds, [type |-> "connect"])
    /\ \/ /\ msgs' = BagAdd(msgs, [type |-> "ConnectMsg", Session |-> Nil,
                                   Err |-> ErrTransport])
          /\ UNCHANGED sessions
       \/ /\ sessions' = Append(sessions, [connected |-> TRUE, client |-> TRUE,
                                           connOpen |-> TRUE, closes |-> 0])
          /\ msgs' = BagAdd(msgs, [type |-> "ConnectMsg",
                                   Session |-> Len(sessions) + 1,
                                   Err |-> ErrNil])
    /\ UNCHANGED <<snmp, walk, walkStatus, history, status, tableData, walks,
                   nConn, nOps, nDisc, clientCalls, crashed, lim, tw, rt>>

\* Update, case snmp.ConnectMsg (app_update.go:80-88).
UpdateConnectMsg(msg) ==
    /\ msg.type = "ConnectMsg"
    /\ msgs' = BagDel(msgs, msg)
    /\ IF msg.Err # ErrNil
       THEN /\ status' = Status("error", "Connect", msg.Err)
            /\ UNCHANGED snmp
       ELSE /\ snmp' = msg.Session
            /\ status' = Status("success", "Connected to", msg.Session)
    /\ UNCHANGED <<walk, walkStatus, history, tableData, sessions, walks,
                   cmds, nConn, nOps, nDisc, clientCalls, crashed, lim, tw, rt>>

\* snmpDisconnect (app_snmp.go:144-149).
snmpDisconnect ==
    /\ nDisc < lim.discs
    /\ snmp # Nil
    /\ cmds' = BagAdd(cmds, [type |-> "disconnect", sess |-> snmp])
    /\ nDisc' = nDisc + 1
    /\ UNCHANGED <<snmp, walk, walkStatus, history, status, tableData,
                   sessions, walks, msgs, nConn, nOps, clientCalls, crashed,
                   lim, tw, rt>>

\* sess.client.Conn != nil: the transport is open, or was and has been
\* closed; closes counts the calls of Conn.Close, which no code reads.
HasConn(s) == sessions[s].connOpen \/ sessions[s].closes > 0

\* DisconnectCmd that calls Close without looking at what it is given.
DisconnectCmdUnguarded(s) ==
    /\ BagIn([type |-> "disconnect", sess |-> s], cmds)
    /\ cmds' = BagDel(cmds, [type |-> "disconnect", sess |-> s])
    /\ IF s # Nil /\ sessions[s].client /\ HasConn(s)
       THEN /\ sessions' = [sessions EXCEPT ![s].connOpen = FALSE,
                                            ![s].closes = @ + 1]
            /\ crashed' = crashed
       ELSE /\ sessions' = sessions
            /\ crashed' = TRUE
    /\ msgs' = BagAdd(msgs, [type |-> "DisconnectMsg"])
    /\ UNCHANGED <<snmp, walk, walkStatus, history, status, tableData, walks,
                   nConn, nOps, nDisc, clientCalls, lim, tw, rt>>

\* DisconnectCmd (session.go:172-179).
DisconnectCmd(s) ==
    /\ BagIn([type |-> "disconnect", sess |-> s], cmds)
    /\ cmds' = BagDel(cmds, [type |-> "disconnect", sess |-> s])
    /\ sessions' = IF s # Nil /\ sessions[s].client /\ HasConn(s)
                   THEN [sessions EXCEPT ![s].connOpen = FALSE,
                                         ![s].closes = @ + 1]
                   ELSE sessions
    /\ msgs' = BagAdd(msgs, [type |-> "DisconnectMsg"])
    /\ UNCHANGED <<snmp, walk, walkStatus, history, status, tableData, walks,
                   nConn, nOps, nDisc, clientCalls, crashed, lim, tw, rt>>

\* WalkSession.Cancel
Cancel(ws, w) ==
    [ws EXCEPT ![w].ctxDone = TRUE,
               ![w].cancelAt = IF ws[w].ctxDone THEN @ ELSE ws[w].consumed]

\* The DisconnectMsg case of Update without m.walk.Cancel().
UpdateDisconnectMsgNoCancel(msg) ==
    /\ msg.type = "DisconnectMsg"
    /\ msgs' = BagDel(msgs, msg)
    /\ walk' = Nil
    /\ walkStatus' = ""
    /\ snmp' = Nil
    /\ status' = Status("info", "Disconnected", "")
    /\ UNCHANGED <<walks, history, tableData, sessions, cmds, nConn, nOps,
                   nDisc, clientCalls, crashed, lim, tw, rt>>

\* Update, case snmp.DisconnectMsg (app_update.go:90-97).
UpdateDisconnectMsg(msg) ==
    /\ msg.type = "DisconnectMsg"
    /\ msgs' = BagDel(msgs, msg)
    /\ IF walk # Nil
       THEN /\ walks' = [Cancel(walks, walk) EXCEPT ![walk].torn = TRUE]
            /\ walk' = Nil
            /\ walkStatus' = ""
       ELSE UNCHANGED <<walks, walk, walkStatus>>
    /\ snmp' = Nil
    /\ status' = Status("info", "Disconnected", "")
    /\ UNCHANGED <<history, tableData, sessions, cmds, nConn, nOps, nDisc,
                   clientCalls, crashed, lim, tw, rt>>

\* handleGlobalKeys, case "esc" with a walk active (app_keys.go:97-102).
handleGlobalKeysEsc ==
    /\ walk # Nil
    /\ walks' = Cancel(walks, walk)
    /\ walkStatus' = "cancelling..."
    /\ UNCHANGED <<snmp, walk, history, status, tableData, sessions, cmds,
                   msgs, nConn, nOps, nDisc, clientCalls, crashed, lim, tw, rt>>

\* handleGlobalKeys, case "[" (app_keys.go:155-159): historyPrev.  The key
\* acts when the bottom pane shows the results, as it does after startWalk
\* and after handleSNMPResult; on an empty history it changes nothing.
historyPrev ==
    /\ history' = Prev(history)
    /\ UNCHANGED <<snmp, walk, walkStatus, status, tableData, sessions, walks,
                   cmds, msgs, nConn, nOps, nDisc, clientCalls, crashed,
                   lim, tw, rt>>

\* handleGlobalKeys, case "]" (app_keys.go:161-165): historyNext.
historyNext ==
    /\ history' = Next(history)
    /\ UNCHANGED <<snmp, walk, walkStatus, status, tableData, sessions, walks,
                   cmds, msgs, nConn, nOps, nDisc, clientCalls, crashed,
                   lim, tw, rt>>


(***************************************************************************)
(* Requests of the user (app_snmp.go).  sel is what requireSelectedOID     *)
(* finds under the tree cursor: "none" (no node, or a node without OID),   *)
(* "short" (fewer than two arcs) or "ok".                                  *)
(***************************************************************************)
Selections == {"none", "short", "ok"}

\* requireConnectedIdle without the check of m.walk.
requireConnectedOnly ==
    IF ~IsConnected(snmp) THEN Status("error", "Not connected", "")
    ELSE NoStatus

\* requireConnectedIdle (app_snmp.go:15-25): the status of the rejection,
\* NoStatus when the request may go on.
requireConnectedIdle ==
    IF ~IsConnected(snmp) THEN Status("error", "Not connected", "")
    ELSE IF walk # Nil THEN Status("warn", "Walk in progress", "")
    ELSE NoStatus

StatusShort == Status("warn", "OID too short for SNMP", "")

\* A request that ends in setStatusReturn and issues no SNMP command.
Rejected(st) ==
    /\ status' = st
    /\ UNCHANGED <<snmp, walk, walkStatus, history, tableData, sessions,
                   walks, cmds, msgs, nConn, nOps, nDisc, clientCalls, crashed,
                   lim, tw, rt>>

\* A request that returns m, nil.
Ignored == UNCHANGED vars

\* return m, getCmd / getNextCmd: the command is in flight.
IssueSimple(type) ==
    /\ nOps < lim.ops
    /\ cmds' = BagAdd(cmds, [type |-> type, sess |-> snmp, id |-> nOps + 1,
                             cols |-> 0])
    /\ nOps' = nOps + 1
    /\ UNCHANGED <<snmp, walk, walkStatus, history, status, tableData,
                   sessions, walks, msgs, nConn, nDisc, clientCalls, crashed,
                   lim, tw, rt>>

\* startWalk (app_snmp.go:171-188).
startWalk ==
    /\ Len(walks) < lim.walks
    /\ StartWalkCmd(snmp)
    /\ walk' = Len(walks) + 1
    /\ history' = addGroup(history,
                           NewGroup(OpWalk, <<>>, ErrNil, Len(walks) + 1))
    /\ walkStatus' = "walking..."
    /\ status' = Status("info", "WALK", "")
    /\ UNCHANGED <<snmp, tableData, sessions, msgs, nConn, nOps, nDisc,
                   clientCalls, crashed, lim, tw, rt>>

\* snmpGet (app_snmp.go:64-81).
snmpGet(sel) ==
    IF requireConnectedIdle # NoStatus THEN Rejected(requireConnectedIdle)
    ELSE IF sel = "none" THEN Ignored
    ELSE IF sel = "short" THEN Rejected(StatusShort)
    ELSE IssueSimple("get")

\* snmpGetNext (app_snmp.go:84-95).
snmpGetNext(sel) ==
    IF requireConnectedIdle # NoStatus THEN Rejected(requireConnectedIdle)
    ELSE IF sel = "none" THEN Ignored
    ELSE IF sel = "short" THEN Rejected(StatusShort)
    ELSE IssueSimple("getnext")

\* snmpWalk (app_snmp.go:98-109).
snmpWalk(sel) ==
    IF requireConnectedIdle # NoStatus THEN Rejected(requireConnectedIdle)
    ELSE IF sel = "none" THEN Ignored
    ELSE IF sel = "short" THEN Rejected(StatusShort)
    ELSE startWalk

\* snmpTableData (app_snmp.go:112-142).  node is what is under the tree
\* cursor: "none" (no node or no object), "other" (resolveTable finds no
\* table) or "table"; cols is the number of columns of that table.
snmpTableData(node, cols) ==
    IF requireConnectedIdle # NoStatus THEN Rejected(requireConnectedIdle)
    ELSE IF node = "none" THEN Ignored
    ELSE IF node = "other" THEN Rejected(Status("warn", "Not a table node", ""))
    ELSE /\ nOps < lim.ops
         /\ cmds' = BagAdd(cmds, [type |-> "table", sess |-> snmp,
                                  id |-> nOps + 1, cols |-> cols])
         /\ nOps' = nOps + 1
         /\ tableData' = "loading"
         /\ status' = Status("info", "Fetching", "")
         /\ UNCHANGED <<snmp, walk, walkStatus, history, sessions, walks,
                        msgs, nConn, nDisc, clientCalls, crashed, lim, tw, rt>>

\* dispatchQuery (app_snmp.go:191-209) with startQueryWalk.  oid is "short"
\* when the query's OID parses to fewer than two arcs.
dispatchQuery(op, oid) ==
    IF requireConnectedIdle # NoStatus THEN Rejected(requireConnectedIdle)
    ELSE IF oid = "short" THEN Rejected(StatusShort)
    ELSE IF op = "queryGet" THEN IssueSimple("get")
    ELSE IF op = "queryGetNext" THEN IssueSimple("getnext")
    ELSE startWalk

(***************************************************************************)
(* The simple commands (ops.go:41-85, 329-361).                            *)
(***************************************************************************)
\* What a request through the client of session s can come back with.
Responses(s, id) ==
    {[err |-> ErrTransport, vars |-> <<>>]} \cup
    (IF s # Nil /\ sessions[s].connOpen
     THEN {[err |-> ErrNil, vars |-> <<>>],
           [err |-> ErrNil, vars |-> << <<Nil, id>> >>],
           \* the request fails with a packet, or the walk with values, at
           \* hand
           [err |-> ErrTransport, vars |-> << <<Nil, id>> >>]}
     ELSE {})

\* snmpCmd that hands on what it has when the request fails.
snmpCmdPartial(s, resp) ==
    IF ~IsConnected(s)
    THEN [results |-> <<>>, err |-> ErrNotConnected, calls |-> 0]
    ELSE [results |-> resp.vars, err |-> resp.err, calls |-> 1]

\* snmpCmd without the check of IsConnected.
snmpCmdUnchecked(s, resp) ==
    IF resp.err # ErrNil
    THEN [results |-> <<>>, err |-> resp.err, calls |-> 1]
    ELSE [results |-> resp.vars, err |-> ErrNil, calls |-> 1]

\* snmpCmd (ops.go:43-61): results and error of the message, and the number
\* of requests made through the client.
snmpCmd(s, resp) ==
    IF ~IsConnected(s)
    THEN [results |-> <<>>, err |-> ErrNotConnected, calls |-> 0]
    ELSE IF resp.err # ErrNil
    THEN [results |-> <<>>, err |-> resp.err, calls |-> 1]
    ELSE [results |-> resp.vars, err |-> ErrNil, calls |-> 1]

\* The command of GetCmd (ops.go:64-73).
GetCmd(c) ==
    /\ c.type = "get"
    /\ cmds' = BagDel(cmds, c)
    /\ \E resp \in Responses(c.sess, c.id) :
           LET out == snmpCmd(c.sess, resp)
           IN  /\ msgs' = BagAdd(msgs, [type |-> "GetMsg",
                                        Results |-> out.results,
                                        Err |-> out.err])
               /\ clientCalls' = clientCalls + out.calls
    /\ UNCHANGED <<snmp, walk, walkStatus, history, status, tableData,
                   sessions, walks, nConn, nOps, nDisc, crashed, lim, tw, rt>>

\* The command of GetNextCmd (ops.go:76-85).
GetNextCmd(c) ==
    /\ c.type = "getnext"
    /\ cmds' = BagDel(cmds, c)
    /\ \E resp \in Responses(c.sess, c.id) :
           LET out == snmpCmd(c.sess, resp)
           IN  /\ msgs' = BagAdd(msgs, [type |-> "GetNextMsg",
                                        Results |-> out.results,
                                        Err |-> out.err])
               /\ clientCalls' = clientCalls + out.calls
    /\ UNCHANGED <<snmp, walk, walkStatus, history, status, tableData,
                   sessions, walks, nConn, nOps, nDisc, crashed, lim, tw, rt>>

\* TableWalkCmd without the test of len(cols).
tableWalkAnyColumns(s, cols, resp) ==
    IF ~IsConnected(s)
    THEN [rows |-> 0, err |-> ErrNotConnected, calls |-> 0]
    ELSE IF resp.err # ErrNil
    THEN [rows |-> 0, err |-> resp.err, calls |-> 1]
    ELSE [rows |-> Len(resp.vars), err |-> ErrNil, calls |-> 1]

\* TableWalkCmd (ops.go:329-361): error and number of rows of the message,
\* and the number of walks made through the client.  resp.vars stands for
\* the values the walk of the table returned.
tableWalk(s, cols, resp) ==
    IF ~IsConnected(s)
    THEN [rows |-> 0, err |-> ErrNotConnected, calls |-> 0]
    ELSE IF cols = 0
    THEN [rows |-> 0, err |-> ErrNoColumns, calls |-> 0]
    ELSE IF resp.err # ErrNil
    THEN [rows |-> 0, err |-> resp.err, calls |-> 1]
    ELSE [rows |-> Len(resp.vars), err |-> ErrNil, calls |-> 1]

\* The command of TableWalkCmd.
TableWalkCmd(c) ==
    /\ c.type = "table"
    /\ cmds' = BagDel(cmds, c)
    /\ \E resp \in Responses(c.sess, c.id) :
           LET out == tableWalk(c.sess, c.cols, resp)
           IN  /\ msgs' = BagAdd(msgs, [type |-> "TableDataMsg",
                                        Rows |-> out.rows, Err |-> out.err])
               /\ clientCalls' = clientCalls + out.calls
    /\ UNCHANGED <<snmp, walk, walkStatus, history, status, tableData,
                   sessions, walks, nConn, nOps, nDisc, crashed, lim, tw, rt>>


(***************************************************************************)
(* Handlers of the outcome messages (app_snmp.go:214-310).                 *)
(***************************************************************************)
\* handleSNMPResult (app_snmp.go:214-226): the group that is added.
handleSNMPResult(op, pdus, err) ==
    NewGroup(op, IF err = ErrNil THEN FormatAll(pdus) ELSE <<>>, err, Nil)

\* handleGetResult (app_snmp.go:228-239).  g.results[0] of an empty result
\* list is an index out of range: the handler panics.
handleGetResult(msg) ==
    /\ msg.type = "GetMsg"
    /\ msgs' = BagDel(msgs, msg)
    /\ LET g == handleSNMPResult(OpGet, msg.Results, msg.Err)
       IN  IF msg.Err # ErrNil
           THEN /\ history' = addGroup(history, g)
                /\ status' = Status("error", "GET failed", msg.Err)
                /\ UNCHANGED crashed
           ELSE IF Len(g.results) = 0
           THEN /\ crashed' = TRUE
                /\ UNCHANGED <<history, status>>
           ELSE /\ history' = addGroup(history, g)
                /\ status' = Status("success", "GET ok", g.results[1])
                /\ UNCHANGED crashed
    /\ UNCHANGED <<snmp, walk, walkStatus, tableData, sessions, walks, cmds,
                   nConn, nOps, nDisc, clientCalls, lim, tw, rt>>

\* handleGetNextResult (app_snmp.go:241-248).
handleGetNextResult(msg) ==
    /\ msg.type = "GetNextMsg"
    /\ msgs' = BagDel(msgs, msg)
    /\ history' = addGroup(history,
                           handleSNMPResult(OpGetNext, msg.Results, msg.Err))
    /\ status' = IF msg.Err # ErrNil
                 THEN Status("error", "GETNEXT failed", msg.Err)
                 ELSE status
    /\ UNCHANGED <<snmp, walk, walkStatus, tableData, sessions, walks, cmds,
                   nConn, nOps, nDisc, clientCalls, crashed, lim, tw, rt>>

\* handleTableData (app_snmp.go:299-310).
handleTableData(msg) ==
    /\ msg.type = "TableDataMsg"
    /\ msgs' = BagDel(msgs, msg)
    /\ IF msg.Err # ErrNil
       THEN /\ tableData' = "error"
            /\ status' = Status("error", "Table fetch failed", msg.Err)
       ELSE /\ tableData' = "data"
            /\ status' = Status("success", "TABLE rows", msg.Rows)
    /\ UNCHANGED <<snmp, walk, walkStatus, history, sessions, walks, cmds,
                   nConn, nOps, nDisc, clientCalls, crashed, lim, tw, rt>>

\* handleWalkBatch (app_snmp.go:250-297).
handleWalkBatch(msg) ==
    /\ msg.type = "WalkBatchMsg"
    /\ msgs' = BagDel(msgs, msg)
    /\ LET h == IF Len(msg.PDUs) > 0
                THEN appendResults(history, FormatAll(msg.PDUs))
                ELSE history
           g == Current(h)
           count == IF g # Nil THEN Len(h.groups[g].results) ELSE 0
       IN  IF ~msg.Done
           THEN \* ask for the next batch, unless disconnect removed the walk
                /\ history' = h
                /\ cmds' = IF walk # Nil
                           THEN BagAdd(cmds, [type |-> "wait", ch |-> walk])
                           ELSE cmds
                /\ UNCHANGED <<walk, walkStatus, status>>
           ELSE IF walk = Nil
           THEN \* already cleaned up by disconnect
                /\ history' = h
                /\ walkStatus' = ""
                /\ UNCHANGED <<walk, status, cmds>>
           ELSE /\ walkStatus' = ""
                /\ walk' = Nil
                /\ UNCHANGED cmds
                /\ IF msg.Err = ErrNil
                   THEN /\ history' = h
                        /\ status' = Status("success", "Walk complete", count)
                   ELSE IF msg.Err = ErrCanceled
                   THEN /\ history' = h
                        /\ status' = Status("info", "Walk cancelled", count)
                   ELSE /\ history' = IF g # Nil
                                      THEN [h EXCEPT !.groups[g].err = msg.Err]
                                      ELSE h
                        /\ status' = Status("error", "Walk failed", msg.Err)
    /\ walks' = IF ~msg.Done /\ Len(msg.PDUs) > 0
                THEN [walks EXCEPT ![msg.src].consumed = @ + 1]
                ELSE walks
    /\ UNCHANGED <<snmp, tableData, sessions, nConn, nOps, nDisc, clientCalls,
                   crashed, lim, tw, rt>>

(***************************************************************************)
(* No table walk and no result tree are under way.                         *)
(***************************************************************************)
NoTableWalk == [started |-> FALSE]
NoResultTree == [started |-> FALSE]

(***************************************************************************)
(* The program.  newApp leaves the zero value of ResultHistory (cursor 0,  *)
(* no groups); model.Init issues a ConnectCmd when a target was given on   *)
(* the command line (app.go:182-192).                                      *)
(***************************************************************************)
Limits(w, c, v, o, d) ==
    [walks |-> w, conns |-> c, vals |-> v, ops |-> o, discs |-> d]

Start(l) ==
    /\ tw = NoTableWalk
    /\ rt = NoResultTree
    /\ lim = l
    /\ snmp = Nil
    /\ walk = Nil
    /\ walkStatus = ""
    /\ history = [groups |-> <<>>, cursor |-> 0, added |-> 0]
    /\ status = NoStatus
    /\ tableData = "none"
    /\ sessions = <<>>
    /\ walks = <<>>
    /\ \/ cmds = EmptyBag /\ nConn = 0
       \/ /\ l.conns > 0
          /\ cmds = SetToBag({[type |-> "connect"]})
          /\ nConn = 1
    /\ msgs = EmptyBag
    /\ nOps = 0
    /\ nDisc = 0
    /\ clientCalls = 0
    /\ crashed = FALSE

Init == Start(Limits(MaxWalks, MaxConnects, MaxVals, MaxOps, MaxDisconnects))

\* The goroutine of a walk takes a step.
Producer ==
    \E w \in Walks :
        \/ walkFn(w)
        \/ walkFnSelect(w)
        \/ doWalkEnd(w)
        \/ doWalkFail(w)
        \/ flush(w)
        \/ terminate(w)

\* A command in flight runs to its message.
Command ==
    \/ ConnectCmd
    \/ \E c \in BagToSet(cmds) :
        \/ c.type = "disconnect" /\ DisconnectCmd(c.sess)
        \/ c.type = "wait" /\ WaitWalkCmd(c.ch)
        \/ GetCmd(c)
        \/ GetNextCmd(c)
        \/ TableWalkCmd(c)

\* Update handles one message.
Update ==
    \E msg \in BagToSet(msgs) :
        \/ UpdateConnectMsg(msg)
        \/ UpdateDisconnectMsg(msg)
        \/ handleGetResult(msg)
        \/ handleGetNextResult(msg)
        \/ handleTableData(msg)
        \/ handleWalkBatch(msg)

\* Update handles a key of the user.
Key ==
    \/ deviceDialogSubmit
    \/ snmpDisconnect
    \/ handleGlobalKeysEsc
    \/ historyPrev
    \/ historyNext
    \/ \E sel \in Selections : snmpGet(sel)
    \/ \E sel \in Selections : snmpGetNext(sel)
    \/ \E sel \in Selections : snmpWalk(sel)
    \/ \E node \in {"none", "other", "table"}, cols \in {0, 2} :
           snmpTableData(node, cols)
    \/ \E op \in {"queryGet", "queryGetNext", "queryWalk"},
          oid \in {"short", "ok"} : dispatchQuery(op, oid)

Step ==
    /\ ~crashed
    /\ (Producer \/ Command \/ Update \/ Key)

Spec == Init /\ [][Step]_vars

(***************************************************************************)
(* One walk and its consumer: the user connects, starts a walk and may     *)
(* press ESC.                                                              *)
(***************************************************************************)
InitWalk == Start(Limits(1, 1, WalkVals, 0, 0))

StepWalk ==
    \/ Producer
    \/ ConnectCmd
    \/ \E c \in BagToSet(cmds) : c.type = "wait" /\ WaitWalkCmd(c.ch)
    \/ \E msg \in BagToSet(msgs) : UpdateConnectMsg(msg)
    \/ \E msg \in BagToSet(msgs) : handleWalkBatch(msg)
    \/ deviceDialogSubmit
    \/ handleGlobalKeysEsc
    \/ \E sel \in Selections : snmpWalk(sel)

SpecWalk == InitWalk /\ [][StepWalk]_vars

(***************************************************************************)
(* Walks across disconnect and reconnect: the user connects, disconnects,  *)
(* starts walks and may press ESC.                                         *)
(***************************************************************************)
InitReconnect ==
    \/ Start(Limits(ReconnectWalks, ReconnectConnects, ReconnectVals, 0, 1))
    \/ Start(Limits(ReuseWalks, ReconnectConnects, 0, 0, 1))

StepReconnect ==
    \/ Producer
    \/ ConnectCmd
    \/ \E c \in BagToSet(cmds) :
           \/ c.type = "disconnect" /\ DisconnectCmd(c.sess)
           \/ c.type = "wait" /\ WaitWalkCmd(c.ch)
    \/ \E msg \in BagToSet(msgs) :
           \/ UpdateConnectMsg(msg)
           \/ UpdateDisconnectMsg(msg)
           \/ handleWalkBatch(msg)
    \/ deviceDialogSubmit
    \/ snmpDisconnect
    \/ handleGlobalKeysEsc
    \/ snmpWalk("ok")

SpecReconnect == InitReconnect /\ [][StepReconnect]_vars

(***************************************************************************)
(* Walks while the user browses the history: the user connects, issues a   *)
(* GET, starts walks and moves the history cursor.                         *)
(***************************************************************************)
InitNav == Start(Limits(NavWalks, 1, NavVals, NavOps, 0))

StepNav ==
    /\ ~crashed
    /\ \/ Producer
       \/ ConnectCmd
       \/ \E c \in BagToSet(cmds) :
              \/ c.type = "wait" /\ WaitWalkCmd(c.ch)
              \/ GetCmd(c)
       \/ \E msg \in BagToSet(msgs) :
              \/ UpdateConnectMsg(msg)
              \/ handleGetResult(msg)
              \/ handleWalkBatch(msg)
       \/ deviceDialogSubmit
       \/ historyPrev
       \/ historyNext
       \/ snmpGet("ok")
       \/ snmpWalk("ok")

SpecNav == InitNav /\ [][StepNav]_vars

(***************************************************************************)
(* The commands of the package called on any session: nil, the zero value  *)
(* of Session, and every combination of the connected flag and the client. *)
(***************************************************************************)
OpsSessions ==
    << [connected |-> FALSE, client |-> FALSE, connOpen |-> FALSE,
        closes |-> 0],
       [connected |-> TRUE, client |-> FALSE, connOpen |-> FALSE,
        closes |-> 0],
       [connected |-> FALSE, client |-> TRUE, connOpen |-> TRUE,
        closes |-> 0],
       [connected |-> TRUE, client |-> TRUE, connOpen |-> TRUE,
        closes |-> 0] >>

InitOps ==
    /\ tw = NoTableWalk
    /\ rt = NoResultTree
    /\ lim = Limits(0, 0, 0, OpsCmds, 0)
    /\ snmp = Nil
    /\ walk = Nil
    /\ walkStatus = ""
    /\ history = [groups |-> <<>>, cursor |-> 0, added |-> 0]
    /\ status = NoStatus
    /\ tableData = "none"
    /\ sessions = OpsSessions
    /\ walks = <<>>
    /\ cmds = EmptyBag
    /\ msgs = EmptyBag
    /\ nConn = 0
    /\ nOps = 0
    /\ nDisc = 0
    /\ clientCalls = 0
    /\ crashed = FALSE

\* A caller hands GetCmd, GetNextCmd or TableWalkCmd the session s.
CallCmd(type, s, cols) ==
    /\ nOps < lim.ops
    /\ cmds' = BagAdd(cmds, [type |-> type, sess |-> s, id |-> nOps + 1,
                             cols |-> cols])
    /\ nOps' = nOps + 1
    /\ UNCHANGED <<snmp, walk, walkStatus, history, status, tableData,
                   sessions, walks, msgs, nConn, nDisc, clientCalls, crashed,
                   lim, tw, rt>>

StepOps ==
    \/ \E s \in {Nil} \cup DOMAIN sessions :
           \/ CallCmd("get", s, 0)
           \/ CallCmd("getnext", s, 0)
           \/ \E cols \in {0, 2} : CallCmd("table", s, cols)
    \/ \E c \in BagToSet(cmds) :
           \/ GetCmd(c)
           \/ GetNextCmd(c)
           \/ TableWalkCmd(c)

SpecOps == InitOps /\ [][StepOps]_vars

(***************************************************************************)
(* What the consumer has seen of a walk.                                   *)
(***************************************************************************)
RECURSIVE Concat(_)
Concat(bs) == IF bs = <<>> THEN <<>> ELSE Head(bs).pdus \o Concat(Tail(bs))

\* The values of the batches WaitWalkCmd has received from walk w, in order.
Delivered(w) == Concat(walks[w].recv)

\* The values the walk primitive has handed to walkFn of walk w, in order.
HandedSeq(w) == [k \in 1..walks[w].n |-> <<w, k>>]

IsPrefix(s, t) == Len(s) <= Len(t) /\ \A i \in 1..Len(s) : s[i] = t[i]

\* WaitWalkCmd has returned the terminal message of walk w.
Terminated(w) ==
    /\ Len(walks[w].recv) > 0
    /\ walks[w].recv[Len(walks[w].recv)].done

\* The outcome that terminal message carries.
Outcome(w) == walks[w].recv[Len(walks[w].recv)].err

\* Update has handled every message of walk w, the terminal one included.
TerminalHandled(w) ==
    /\ Terminated(w)
    /\ \A m \in BagToSet(msgs) : m.type = "WalkBatchMsg" => m.src # w

\* The batch sizes of a walk of n values.
ExpectedLens(n) ==
    [i \in 1..((n \div walkBatchSize)
               + IF n % walkBatchSize > 0 THEN 1 ELSE 0) |->
        IF i <= n \div walkBatchSize THEN walkBatchSize
        ELSE n % walkBatchSize]

(***************************************************************************)
(* C1                                                                      *)
(***************************************************************************)
\* C1 as stated: once the consumer has received the terminal message of a
\* walk, the concatenation of the batches it received is the full sequence
\* of values the walk primitive handed to walkFn.
C1_AllHandedDelivered ==
    \A w \in Walks : Terminated(w) => Delivered(w) = HandedSeq(w)

\* C1 amended: the batches the consumer has received from a walk always
\* concatenate to a prefix of the values handed to walkFn (none duplicated
\* or reordered), and for a walk whose cancellation was not triggered the
\* concatenation at the terminal message is the full sequence.
C1_DeliveredIsHanded ==
    \A w \in Walks :
        /\ IsPrefix(Delivered(w), HandedSeq(w))
        /\ (Terminated(w) /\ ~walks[w].ctxDone) =>
               Delivered(w) = HandedSeq(w)

\* An uncancelled walk has ended after more than one data batch.
C1_Witness ==
    \E w \in Walks :
        /\ Terminated(w)
        /\ ~walks[w].ctxDone
        /\ Len(walks[w].recv) > 2
        /\ Len(Delivered(w)) > walkBatchSize

(***************************************************************************)
(* C2                                                                      *)
(***************************************************************************)
\* C2: when a walk is cancelled after the consumer has consumed its first
\* batch and the producer ends with the context's error, the terminal
\* message the consumer receives carries the Cancelled condition.
C2_CancelledOutcome ==
    \A m \in BagToSet(msgs) :
        (/\ m.type = "WalkBatchMsg"
         /\ m.Done
         /\ walks[m.src].cancelAt >= 1
         /\ walks[m.src].err = ErrCanceled) => m.Err = ErrCanceled

(***************************************************************************)
(* C7                                                                      *)
(***************************************************************************)
\* C7: no data batch the consumer receives is empty, and a walk that runs
\* to its end with N values delivers N div B batches of B values, then
\* one of N mod B values if that is positive, then the terminal message.
C7_BatchSizes ==
    \A w \in Walks :
        LET r == walks[w].recv
            e == ExpectedLens(walks[w].n)
        IN  /\ \A i \in 1..Len(r) : ~r[i].done => Len(r[i].pdus) > 0
            /\ (Terminated(w) /\ ~walks[w].ctxDone) =>
                   /\ Len(r) = Len(e) + 1
                   /\ \A i \in 1..Len(e) :
                          ~r[i].done /\ Len(r[i].pdus) = e[i]

\* An uncancelled walk of two full batches and a partial one has ended.
C7_Witness ==
    \E w \in Walks :
        /\ Terminated(w)
        /\ ~walks[w].ctxDone
        /\ walks[w].n = 2 * walkBatchSize + 1
        /\ Len(walks[w].recv) = 4

(***************************************************************************)
(* C8                                                                      *)
(***************************************************************************)
\* The values walk w holds in its queue and in its accumulating batch.
Buffered(w) == Len(Concat(walks[w].ch)) + Len(walks[w].batch)

\* The producer of walk w can take a step.
ProducerStep(w) ==
    \/ walkFn(w)
    \/ walkFnSelect(w)
    \/ doWalkEnd(w)
    \/ doWalkFail(w)
    \/ flush(w)
    \/ terminate(w)

\* C8: the queue of a walk never holds more than walkChanCap batches; at a
\* push on a full queue the producer takes no step until the consumer
\* takes a batch or the walk is cancelled; so a walk never buffers more
\* than walkChanCap queued batches and one accumulating batch.
C8_BoundedQueue ==
    \A w \in Walks :
        /\ Len(walks[w].ch) <= walkChanCap
        /\ Len(walks[w].batch) <= walkBatchSize
        /\ Buffered(w) <= (walkChanCap + 1) * walkBatchSize
        /\ (/\ walks[w].pc = "push"
            /\ Len(walks[w].ch) = walkChanCap
            /\ ~walks[w].ctxDone) => ~ENABLED ProducerStep(w)

\* The producer is blocked at a push with the queue and the batch full.
C8_Witness ==
    \E w \in Walks :
        /\ walks[w].pc = "push"
        /\ Len(walks[w].ch) = walkChanCap
        /\ ~walks[w].ctxDone
        /\ Buffered(w) = (walkChanCap + 1) * walkBatchSize

(***************************************************************************)
(* C3                                                                      *)
(***************************************************************************)
\* Nothing will ever receive from the queue of walk w or cancel it: it is
\* not the walk the model holds (only that one is cancelled or waited
\* on again), and no wait command or message of it is left.
Abandoned(w) ==
    /\ walk # w
    /\ ~BagIn([type |-> "wait", ch |-> w], cmds)
    /\ \A m \in BagToSet(msgs) : m.type = "WalkBatchMsg" => m.src # w

\* C3: no producer blocks forever on a full queue: a producer that stands
\* at a send on a full queue, uncancelled, is never abandoned.
C3_NoProducerBlockedForever ==
    \A w \in Walks :
        ~(/\ walks[w].pc \in {"push", "flush", "term"}
          /\ (walks[w].pc = "flush" => Len(walks[w].batch) > 0)
          /\ ~CanSend(w)
          /\ ~walks[w].ctxDone
          /\ Abandoned(w))

(***************************************************************************)
(* C5                                                                      *)
(***************************************************************************)
\* The walks whose producer goroutine is running against session s.
Running(s) == {w \in Walks : walks[w].sess = s /\ walks[w].pc # "done"}

\* C5: at most one walk producer is running against a session.
C5_OneProducerPerSession ==
    \A s \in DOMAIN sessions : Cardinality(Running(s)) <= 1

(***************************************************************************)
(* C9                                                                      *)
(***************************************************************************)
\* C9: a step changes the results or the error of a stored group only if
\* the group is the one created by the walk that is streaming.
C9_GroupsFrozen ==
    [][\A i \in DOMAIN history.groups, j \in DOMAIN history'.groups :
          (/\ history.groups[i].gid = history'.groups[j].gid
           /\ history.groups[i] # history'.groups[j]) =>
              (walk # Nil /\ history.groups[i].owner = walk)]_vars

(***************************************************************************)
(* C10                                                                     *)
(***************************************************************************)
\* C10: once the terminal message of a failed or cancelled walk has been
\* handled, the group created for that walk holds the concatenation of the
\* batches delivered for it, in order.
C10_RetainsDelivered ==
    \A i \in DOMAIN history.groups :
        LET g == history.groups[i]
        IN  (/\ g.owner # Nil
             /\ TerminalHandled(g.owner)
             /\ Outcome(g.owner) # ErrNil) =>
                g.results = FormatAll(Delivered(g.owner))

(***************************************************************************)
(* C4                                                                      *)
(***************************************************************************)
\* The step is a request for a GET, a GETNEXT, a table fetch or a walk,
\* from a chord or from the query bar.
Request ==
    \/ \E sel \in Selections : snmpGet(sel)
    \/ \E sel \in Selections : snmpGetNext(sel)
    \/ \E sel \in Selections : snmpWalk(sel)
    \/ \E node \in {"none", "other", "table"}, cols \in {0, 2} :
           snmpTableData(node, cols)
    \/ \E op \in {"queryGet", "queryGetNext", "queryWalk"},
          oid \in {"short", "ok"} : dispatchQuery(op, oid)

\* C4: a request made while model.walk is set ends with the status 'Walk
\* in progress', issues no command, starts no producer and leaves the walk
\* handle, the history and the messages alone.
C4_WalkInProgress ==
    [][(walk # Nil /\ Request) =>
          /\ status' = Status("warn", "Walk in progress", "")
          /\ UNCHANGED <<cmds, walks, walk, msgs, history, tableData,
                         clientCalls, nOps>>]_vars

\* A request was rejected while a walk is active.
C4_Witness ==
    /\ walk # Nil
    /\ status = Status("warn", "Walk in progress", "")

(***************************************************************************)
(* C6                                                                      *)
(***************************************************************************)
\* The step runs the simple command c.
Runs(c) ==
    /\ c.type \in {"get", "getnext", "table"}
    /\ BagIn(c, cmds)
    /\ cmds' = BagDel(cmds, c)

\* C6: a GET, GETNEXT or table command that runs on a session for which
\* IsConnected is false hands back one message with the 'not connected'
\* error and makes no request through the client.
C6_NotConnected ==
    [][\A c \in BagToSet(cmds) :
          (Runs(c) /\ ~IsConnected(c.sess)) =>
             /\ clientCalls' = clientCalls
             /\ \E m \in BagToSet(msgs') :
                    /\ m.Err = ErrNotConnected
                    /\ msgs' = BagAdd(msgs, m)]_vars

\* Commands of all three kinds have run on sessions that are not connected
\* and no request went through a client.
C6_Witness ==
    /\ clientCalls = 0
    /\ \E m1, m2 \in BagToSet(msgs) :
           /\ m1.type # m2.type
           /\ m1.Err = ErrNotConnected
           /\ m2.Err = ErrNotConnected

(***************************************************************************)
(* C11                                                                     *)
(***************************************************************************)
\* Update handles a DisconnectMsg in this step.
HandlesDisconnect ==
    /\ BagIn([type |-> "DisconnectMsg"], msgs)
    /\ msgs' = BagDel(msgs, [type |-> "DisconnectMsg"])

\* C11: the step that handles a DisconnectMsg while a walk is active
\* cancels that walk's context, clears the walk handle and the walk
\* status and drops the session, so that the model is not connected.
C11_DisconnectTearsDown ==
    [][(HandlesDisconnect /\ walk # Nil) =>
          /\ walks'[walk].ctxDone
          /\ walk' = Nil
          /\ walkStatus' = ""
          /\ snmp' = Nil
          /\ ~IsConnected(snmp')]_vars

\* A disconnect has removed a walk whose producer was still running and
\* had not been cancelled by ESC.
C11_Witness ==
    /\ walk = Nil
    /\ snmp = Nil
    /\ walkStatus = ""
    /\ \E w \in Walks :
           /\ walks[w].torn
           /\ walks[w].ctxDone
           /\ walks[w].pc = "walk"

(***************************************************************************)
(* C12                                                                     *)
(***************************************************************************)
\* Update handles the message m of a walk in this step.
HandlesWalkMsg(m) ==
    /\ m.type = "WalkBatchMsg"
    /\ BagIn(m, msgs)
    /\ msgs' = BagDel(msgs, m)

\* C12: handling the terminal message of a walk that a disconnect has torn
\* down leaves the walk handle, the session and the history unchanged.
C12_LateTerminalNoOp ==
    [][\A m \in BagToSet(msgs) :
          (HandlesWalkMsg(m) /\ m.Done /\ walks[m.src].torn) =>
             UNCHANGED <<walk, snmp, history>>]_vars

(***************************************************************************)
(* ResultHistory alone (result.go:33-69): from the zero value that         *)
(* newResultModel leaves, any sequence of Add, Prev and Next.              *)
(***************************************************************************)
InitHistory ==
    /\ Start(Limits(0, 0, 0, 0, 0))
    /\ cmds = EmptyBag

\* resultModel.addGroup with the group g.
HistoryAdd(g) ==
    /\ history.added < HistAdds
    /\ history' = addGroup(history, g)
    /\ UNCHANGED <<snmp, walk, walkStatus, status, tableData, sessions, walks,
                   cmds, msgs, nConn, nOps, nDisc, clientCalls, crashed,
                   lim, tw, rt>>

StepHistory ==
    \/ \E op \in {OpGet, OpGetNext, OpWalk} :
           HistoryAdd(NewGroup(op, <<>>, ErrNil, Nil))
    \/ historyPrev
    \/ historyNext

SpecHistory == InitHistory /\ [][StepHistory]_vars

(***************************************************************************)
(* C13                                                                     *)
(***************************************************************************)
\* C13: after every Add the history holds the most recent min(n, capacity)
\* added groups in insertion order, never more than the capacity, the
\* groups kept are unchanged, and the cursor is on the newest group.
C13_Capacity ==
    [][history'.added = history.added + 1 =>
          LET gs  == history.groups
              gs2 == history'.groups
              n   == history'.added
              k   == IF Len(gs) >= resultHistoryCapacity THEN 1 ELSE 0
          IN  /\ Len(gs2) = IF n < resultHistoryCapacity
                            THEN n ELSE resultHistoryCapacity
              /\ history'.cursor = Len(gs2) - 1
              /\ \A i \in 1..Len(gs2) : gs2[i].gid = n - Len(gs2) + i
              /\ \A i \in 1..(Len(gs2) - 1) : gs2[i] = gs[i + k]]_vars

\* capacity + 1 groups were added: capacity are left, the first is gone and
\* the cursor is on the newest.
C13_Witness ==
    /\ history.added = resultHistoryCapacity + 1
    /\ Len(history.groups) = resultHistoryCapacity
    /\ history.groups[1].gid = 2
    /\ history.cursor = resultHistoryCapacity - 1

(***************************************************************************)
(* C14                                                                     *)
(***************************************************************************)
\* C14: the cursor is -1 when the history has no group and is otherwise an
\* index of a stored group.
C14_CursorSentinel ==
    IF Len(history.groups) = 0
    THEN history.cursor = -1
    ELSE 0 <= history.cursor /\ history.cursor < Len(history.groups)

(***************************************************************************)
(* C15                                                                     *)
(***************************************************************************)
\* C15: Prev and Next leave the stored groups alone; Prev moves the cursor
\* down by one and Next up by one, except that Prev at the first group,
\* Next at the last group and both on an empty history change nothing.
C15_PrevNextFrame ==
    [][/\ historyPrev =>
             /\ history'.groups = history.groups
             /\ history'.added = history.added
             /\ IF Len(history.groups) = 0 \/ history.cursor = 0
                THEN history' = history
                ELSE history'.cursor = history.cursor - 1
       /\ historyNext =>
             /\ history'.groups = history.groups
             /\ history'.added = history.added
             /\ IF \/ Len(history.groups) = 0
                   \/ history.cursor = Len(history.groups) - 1
                THEN history' = history
                ELSE history'.cursor = history.cursor + 1]_vars

\* Prev has moved the cursor off the newest group of a full history.
C15_Witness ==
    /\ Len(history.groups) = resultHistoryCapacity
    /\ history.cursor = 0

(***************************************************************************)
(* C18                                                                     *)
(***************************************************************************)
\* C18: a table command that runs on a connected session for a table
\* without columns hands back one message with the 'no columns defined'
\* error and never calls the walk primitive.
C18_NoColumns ==
    [][\A c \in BagToSet(cmds) :
          (Runs(c) /\ c.type = "table" /\ IsConnected(c.sess)
             /\ c.cols = 0) =>
             /\ clientCalls' = clientCalls
             /\ \E m \in BagToSet(msgs') :
                    /\ m.type = "TableDataMsg"
                    /\ m.Err = ErrNoColumns
                    /\ msgs' = BagAdd(msgs, m)]_vars

\* A table without columns was fetched on a connected session and no
\* request went through a client.
C18_Witness ==
    /\ clientCalls = 0
    /\ \E m \in BagToSet(msgs) :
           m.type = "TableDataMsg" /\ m.Err = ErrNoColumns

(***************************************************************************)
(* The table walk (ops.go:182-325).  A table is the list of its columns    *)
(* (name and OID) and the names of the effective indexes of its entry      *)
(* (none when the table has no entry).  A PDU of the walk is               *)
(*   owner   the OID of the node LongestPrefixByOID finds for it, Nil when *)
(*           the name does not parse or no node is found                   *)
(*   suffix  the text of its OID beyond that node's OID                    *)
(*   val     the text formatPDU yields for it, "" for an empty value       *)
(* tw.seed stands for the order in which the Go runtime would range over   *)
(* a map in the next call; seen lists the PDUs handed to handlePDU.        *)
(***************************************************************************)
Tables ==
    { [cols  |-> << [name |-> "ifIndex", oid |-> 1],
                    [name |-> "ifDescr", oid |-> 2] >>,
       index |-> {"ifIndex"}],
      [cols  |-> << [name |-> "colA", oid |-> 1],
                    [name |-> "colB", oid |-> 2],
                    [name |-> "colC", oid |-> 3] >>,
       index |-> {"ifIndex", "colC", "colA"}] }

TablePDUSet ==
    {[owner |-> Nil, suffix |-> "", val |-> "a"],
     [owner |-> 3, suffix |-> "1", val |-> "a"]} \cup
    [owner : {1, 2}, suffix : {"", "0", "1"}, val : {"", "a"}]

Seeds == {0, 1}

\* formatPDU (scrollbar.go:81-127), as far as the collector is concerned.
formatPDU(pdu) == pdu.val

\* buildTableSchema with colList filled by ranging over colMap.
buildTableSchemaMapOrder(tbl) ==
    LET cols == tbl.cols
        n    == Len(cols)
        pos(i) == IF tw.seed = 0 THEN i ELSE n + 1 - i
        colList == [i \in 1..n |->
                       [name |-> cols[pos(i)].name, oid |-> cols[pos(i)].oid,
                        idx |-> i - 1]]
    IN  [colMap    |-> [o \in {cols[i].oid : i \in 1..n} |->
                           colList[CHOOSE i \in 1..n : colList[i].oid = o]],
         colList   |-> colList,
         colNames  |-> [i \in 1..n |-> colList[i].name],
         indexCols |-> Cardinality({i \in 1..n : cols[i].name \in tbl.index})]

\* buildTableSchema (ops.go:215-248).
buildTableSchema(tbl) ==
    LET cols == tbl.cols
        n    == Len(cols)
        colList == [i \in 1..n |->
                       [name |-> cols[i].name, oid |-> cols[i].oid,
                        idx |-> i - 1]]
        \* colMap[ci.oid] = ci: the last column of an OID stays
        last(o) == CHOOSE i \in 1..n :
                       /\ cols[i].oid = o
                       /\ \A j \in 1..n : cols[j].oid = o => j <= i
    IN  [colMap    |-> [o \in {cols[i].oid : i \in 1..n} |-> colList[last(o)]],
         colList   |-> colList,
         colNames  |-> [i \in 1..n |-> colList[i].name],
         indexCols |-> Cardinality({i \in 1..n :
                                       colList[i].name \in tbl.index})]

\* newTableWalkCollector (ops.go:259-265).
newTableWalkCollector(schema) ==
    [schema |-> schema, rowMap |-> <<>>, rowOrder |-> <<>>]

\* handlePDU that puts a new row first.
handlePDUNewRowFirst(c, pdu) ==
    IF pdu.owner = Nil \/ pdu.owner \notin DOMAIN c.schema.colMap
    THEN c
    ELSE LET ci == c.schema.colMap[pdu.owner]
             suffixStr == IF pdu.suffix = "" THEN "0" ELSE pdu.suffix
             exists == suffixStr \in DOMAIN c.rowMap
             cells == IF exists THEN c.rowMap[suffixStr]
                      ELSE [i \in 1..Len(c.schema.colList) |-> ""]
         IN  [c EXCEPT
                 !.rowMap = [k \in DOMAIN c.rowMap \cup {suffixStr} |->
                                IF k = suffixStr
                                THEN [cells EXCEPT ![ci.idx + 1] =
                                                       formatPDU(pdu)]
                                ELSE c.rowMap[k]],
                 !.rowOrder = IF exists THEN @ ELSE <<suffixStr>> \o @]

\* tableWalkCollector.handlePDU (ops.go:270-305).
handlePDU(c, pdu) ==
    IF pdu.owner = Nil
    THEN c   \* unparseable, or no node
    ELSE IF pdu.owner \notin DOMAIN c.schema.colMap
    THEN c   \* not one of our columns
    ELSE LET ci == c.schema.colMap[pdu.owner]
             suffixStr == IF pdu.suffix = "" THEN "0" ELSE pdu.suffix
             exists == suffixStr \in DOMAIN c.rowMap
             cells == IF exists THEN c.rowMap[suffixStr]
                      ELSE [i \in 1..Len(c.schema.colList) |-> ""]
         IN  [c EXCEPT
                 !.rowMap = [k \in DOMAIN c.rowMap \cup {suffixStr} |->
                                IF k = suffixStr
                                THEN [cells EXCEPT ![ci.idx + 1] =
                                                       formatPDU(pdu)]
                                ELSE c.rowMap[k]],
                 !.rowOrder = IF exists THEN @ ELSE Append(@, suffixStr)]

\* buildTableRows that leaves the cells as they are.
buildTableRowsRaw(c) ==
    [r \in 1..Len(c.rowOrder) |-> c.rowMap[c.rowOrder[r]]]

\* tableWalkCollector.buildTableRows (ops.go:309-325).
buildTableRows(c) ==
    [r \in 1..Len(c.rowOrder) |->
        LET cells == c.rowMap[c.rowOrder[r]]
        IN  [i \in 1..Len(cells) |->
                IF cells[i] = "" THEN "-" ELSE cells[i]]]

TableFrame ==
    UNCHANGED <<snmp, walk, walkStatus, history, status, tableData, sessions,
                walks, cmds, msgs, nConn, nOps, nDisc, clientCalls, crashed,
                lim, rt>>

\* TableWalkCmd builds the schema and the collector (ops.go:343-344).
TableWalkStart ==
    /\ ~tw.started
    /\ \E sd \in Seeds :
           tw' = [tw EXCEPT
                     !.started = TRUE,
                     !.seed = sd,
                     !.built = Append(@, buildTableSchema(tw.tbl)),
                     !.coll = newTableWalkCollector(
                                  buildTableSchema(tw.tbl))]
    /\ TableFrame

\* walkFn of TableWalkCmd (ops.go:346-348): the walk hands over one value.
TableWalkPDU(pdu) ==
    /\ tw.started
    /\ Len(tw.seen) < TablePDUs
    /\ tw' = [tw EXCEPT !.coll = handlePDU(tw.coll, pdu),
                        !.seen = Append(@, pdu)]
    /\ TableFrame

\* buildTableSchema is called once more on the same table.
BuildSchemaAgain ==
    /\ tw.started
    /\ Len(tw.built) < TableBuilds
    /\ \E sd \in Seeds :
           tw' = [tw EXCEPT !.seed = sd,
                            !.built = Append(@, buildTableSchema(tw.tbl))]
    /\ TableFrame

InitTable ==
    /\ \E tbl \in Tables, sd \in Seeds :
           tw = [started |-> FALSE, tbl |-> tbl, seed |-> sd, built |-> <<>>,
                 coll |-> newTableWalkCollector(<<>>), seen |-> <<>>]
    /\ rt = NoResultTree
    /\ lim = Limits(0, 0, 0, 0, 0)
    /\ snmp = Nil
    /\ walk = Nil
    /\ walkStatus = ""
    /\ history = [groups |-> <<>>, cursor |-> 0, added |-> 0]
    /\ status = NoStatus
    /\ tableData = "none"
    /\ sessions = <<>>
    /\ walks = <<>>
    /\ cmds = EmptyBag
    /\ msgs = EmptyBag
    /\ nConn = 0
    /\ nOps = 0
    /\ nDisc = 0
    /\ clientCalls = 0
    /\ crashed = FALSE

StepTable ==
    \/ TableWalkStart
    \/ \E pdu \in TablePDUSet : TableWalkPDU(pdu)
    \/ BuildSchemaAgain

SpecTable == InitTable /\ [][StepTable]_vars

(***************************************************************************)
(* What the walk handed to the collector, read off tw.seen alone.          *)
(***************************************************************************)
\* the position of the table column a PDU belongs to, 0 when it has none:
\* the node LongestPrefixByOID finds is one of tbl.Columns()
ColumnOf(pdu) ==
    IF pdu.owner = Nil
       \/ \A i \in 1..Len(tw.tbl.cols) : tw.tbl.cols[i].oid # pdu.owner
    THEN 0
    ELSE CHOOSE i \in 1..Len(tw.tbl.cols) : tw.tbl.cols[i].oid = pdu.owner

\* the row key of a PDU: the suffix beyond the column, "0" when empty
KeyOf(pdu) == IF pdu.suffix = "" THEN "0" ELSE pdu.suffix

RECURSIVE FirstSeen(_)
FirstSeen(s) ==
    IF s = <<>> THEN <<>>
    ELSE LET p == FirstSeen(SubSeq(s, 1, Len(s) - 1))
             k == s[Len(s)]
         IN  IF \E i \in 1..Len(p) : p[i] = k THEN p ELSE Append(p, k)

\* the keys of the PDUs of table columns, in the order of arrival
OwnedKeys ==
    LET IsOwned(p) == ColumnOf(p) # 0
        owned == SelectSeq(tw.seen, IsOwned)
    IN  [i \in 1..Len(owned) |-> KeyOf(owned[i])]

\* the positions in tw.seen of the PDUs of row k and column i
Received(k, i) ==
    {n \in 1..Len(tw.seen) :
        ColumnOf(tw.seen[n]) = i /\ KeyOf(tw.seen[n]) = k}

\* the text of the last of them, "" when there is none
LastValue(k, i) ==
    IF Received(k, i) = {} THEN ""
    ELSE LET n == CHOOSE x \in Received(k, i) :
                      \A y \in Received(k, i) : y <= x
         IN  formatPDU(tw.seen[n])

\* C16: every row buildTableRows returns has as many cells as the schema
\* has columns, and a cell of a row and column for which the walk handed
\* over no value is the placeholder "-", whatever values were handled.
C16_Rectangular ==
    tw.started =>
        LET rows == buildTableRows(tw.coll)
        IN  \A r \in 1..Len(rows) :
                /\ Len(rows[r]) = Len(tw.coll.schema.colNames)
                /\ \A i \in 1..Len(rows[r]) :
                       Received(tw.coll.rowOrder[r], i) = {}
                           => rows[r][i] = "-"

\* two rows, each with a received value and a cell nothing was received for
C16_Witness ==
    /\ tw.started
    /\ Len(buildTableRows(tw.coll)) = 2
    /\ \A r \in 1..2 :
           /\ \E i \in 1..Len(tw.tbl.cols) :
                  /\ Received(tw.coll.rowOrder[r], i) = {}
                  /\ buildTableRows(tw.coll)[r][i] = "-"
           /\ \E i \in 1..Len(tw.tbl.cols) :
                  buildTableRows(tw.coll)[r][i] = "a"

\* C17: whatever values were handled, there is one row per distinct key of
\* the values owned by a table column (the suffix beyond the column, "0"
\* for an empty one), the rows are put out in the order their keys were
\* first seen, each row holds at a column's position the last value
\* received for it, and values owned by no column leave no trace.
C17_RowsByFirstSeenKey ==
    tw.started =>
        LET keys == FirstSeen(OwnedKeys)
            rows == buildTableRows(tw.coll)
        IN  /\ tw.coll.rowOrder = keys
            /\ DOMAIN tw.coll.rowMap = {keys[r] : r \in 1..Len(keys)}
            /\ Len(rows) = Cardinality({keys[r] : r \in 1..Len(keys)})
            /\ \A r \in 1..Len(keys) :
                   \A i \in 1..Len(tw.tbl.cols) :
                       /\ tw.coll.rowMap[keys[r]][i] = LastValue(keys[r], i)
                       /\ rows[r][i] = IF LastValue(keys[r], i) = "" THEN "-"
                                       ELSE LastValue(keys[r], i)

\* row "1" came before row "0", whose key stands for an empty suffix; a
\* value of no column was handled too
C17_Witness ==
    /\ tw.started
    /\ tw.coll.rowOrder = <<"1", "0">>
    /\ \E n \in 1..Len(tw.seen) :
           ColumnOf(tw.seen[n]) = 2 /\ tw.seen[n].suffix = ""
                                    /\ tw.seen[n].val = "a"
    /\ \E n \in 1..Len(tw.seen) : ColumnOf(tw.seen[n]) = 0
    /\ buildTableRows(tw.coll)[2][2] = "a"

MibNodes ==
    { [name |-> "iso",      oid |-> <<1>>],
      [name |-> "sysDescr", oid |-> <<1, 1>>],
      [name |-> "ifTable",  oid |-> <<1, 2>>],
      [name |-> "ifEntry",  oid |-> <<1, 2, 1>>],
      [name |-> "ifIndex",  oid |-> <<1, 2, 1, 1>>],
      [name |-> "ifDescr",  oid |-> <<1, 2, 1, 2>>] }

\* results a group can hold: one whose OID does not parse, one no node of
\* the MIB is a prefix of, instances of two columns and of a scalar, and
\* one whose OID is that of a column itself
TreeResults ==
    { [parses |-> FALSE, oid |-> <<>>,              name |-> "x"],
      [parses |-> TRUE,  oid |-> <<2, 5>>,          name |-> "2.5"],
      [parses |-> TRUE,  oid |-> <<1, 2, 1, 2, 1>>, name |-> "ifDescr.1"],
      [parses |-> TRUE,  oid |-> <<1, 2, 1, 2, 2>>, name |-> "ifDescr.2"],
      [parses |-> TRUE,  oid |-> <<1, 2, 1, 2>>,    name |-> "ifDescr"],
      [parses |-> TRUE,  oid |-> <<1, 2, 1, 1, 1>>, name |-> "ifIndex.1"],
      [parses |-> TRUE,  oid |-> <<1, 1, 0>>,       name |-> "sysDescr.0"] }

\* walkRootOID of the group: nil, a table, a column
WalkRoots == { <<>>, <<1, 2>>, <<1, 2, 1, 2>> }

\* OID.HasPrefix
HasPrefix(oid, p) == Len(p) <= Len(oid) /\ SubSeq(oid, 1, Len(p)) = p

\* Mib.LongestPrefixByOID: the OIDs of the nodes that are prefixes of oid;
\* the node found is the longest of them, none when the set is empty
PrefixNodes(oid) == {n \in MibNodes : HasPrefix(oid, n.oid)}

LongestPrefixByOID(oid) ==
    CHOOSE n \in PrefixNodes(oid) :
        \A o \in PrefixNodes(oid) : Len(o.oid) <= Len(n.oid)

\* Node.Parent: the node one arc up; HasParent is Parent() != nil
HasParent(n) == Len(n.oid) > 1

Parent(n) ==
    CHOOSE p \in MibNodes : p.oid = SubSeq(n.oid, 1, Len(n.oid) - 1)

\* strconv.FormatUint for the arcs at hand
ArcStr(a) == IF a = 0 THEN "0" ELSE IF a = 1 THEN "1" ELSE "2"

\* formatSuffix (part_000:185-191)
RECURSIVE formatSuffix(_)
formatSuffix(suffix) ==
    IF Len(suffix) = 0 THEN ""
    ELSE IF Len(suffix) = 1 THEN ArcStr(suffix[1])
    ELSE ArcStr(suffix[1]) \o "." \o formatSuffix(Tail(suffix))

\* findChild that finds nothing
findChildNever(nodes, parent, name) == 0

\* findChild (part_000:175-182): the first child of that name, 0 for nil
findChild(nodes, parent, name) ==
    LET named == {i \in 1..Len(nodes) :
                     nodes[i].parent = parent /\ nodes[i].name = name}
    IN  IF named = {} THEN 0
        ELSE CHOOSE i \in named : \A j \in named : i <= j

\* buildGroupPath (part_000:142-172): ancestors collects the nodes from
\* node upwards, nearest first, until one lies at or above the walk root
RECURSIVE ancestors(_, _)
ancestors(n, walkRootOID) ==
    IF walkRootOID # <<>> /\ Len(n.oid) <= Len(walkRootOID)
       /\ HasPrefix(walkRootOID, n.oid)
    THEN <<>>
    ELSE IF HasParent(n)
    THEN <<n>> \o ancestors(Parent(n), walkRootOID)
    ELSE <<n>>

\* buildGroupPath without slices.Reverse: the path from the leaf upwards
buildGroupPathUnreversed(node, walkRootOID) ==
    LET a == ancestors(node, walkRootOID)
    IN  IF Len(a) > 1 THEN SubSeq(a, 2, Len(a)) ELSE <<>>

buildGroupPath(node, walkRootOID) ==
    LET a == ancestors(node, walkRootOID)
        \* slices.Reverse, then all but the last, which is node itself
        rev == [i \in 1..Len(a) |-> a[Len(a) + 1 - i]]
    IN  IF Len(a) > 1 THEN SubSeq(rev, 1, Len(a) - 1) ELSE <<>>

\* depth of a node of the tree, 0 for the root
DepthOf(nodes, at) == IF at = 0 THEN 0 ELSE nodes[at].depth

TreeNode(name, parent, oid, leaf, depth) ==
    [name |-> name, parent |-> parent, oid |-> oid, leaf |-> leaf,
     expanded |-> ~leaf, depth |-> depth]

\* part_000:81-92 and 100-110: the child of that name, created when
\* findChild finds none
FindOrCreate(t, name, oid) ==
    LET child == findChild(t.nodes, t.at, name)
    IN  IF child # 0 THEN [nodes |-> t.nodes, at |-> child]
        ELSE [nodes |-> Append(t.nodes,
                            TreeNode(name, t.at, oid, FALSE,
                                     DepthOf(t.nodes, t.at) + 1)),
              at |-> Len(t.nodes) + 1]

\* part_000:79-93: down the path from the root
RECURSIVE Navigate(_, _)
Navigate(t, path) ==
    IF path = <<>> THEN t
    ELSE Navigate(FindOrCreate(t, path[1].name, path[1].oid), Tail(path))

\* insertResultIntoTree that skips what it cannot place
insertResultIntoTreeDropping(nodes, res, walkRootOID) ==
    IF ~res.parses \/ PrefixNodes(res.oid) = {}
    THEN nodes
    ELSE LET node == LongestPrefixByOID(res.oid)
             path == buildGroupPath(node, walkRootOID)
             current == Navigate([nodes |-> nodes, at |-> 0], path)
             suffix == SubSeq(res.oid, Len(node.oid) + 1, Len(res.oid))
         IN  IF Len(suffix) > 0
             THEN LET mibGroup == FindOrCreate(current, node.name, node.oid)
                  IN  Append(mibGroup.nodes,
                             TreeNode(formatSuffix(suffix), mibGroup.at,
                                      res.oid, TRUE,
                                      DepthOf(mibGroup.nodes, mibGroup.at)
                                          + 1))
             ELSE Append(current.nodes,
                         TreeNode(node.name, current.at, res.oid, TRUE,
                                  DepthOf(current.nodes, current.at) + 1))

\* insertResultIntoTree (part_000:46-132)
insertResultIntoTree(nodes, res, walkRootOID) ==
    IF ~res.parses
    THEN Append(nodes, TreeNode(res.name, 0, <<>>, TRUE, 1))
    ELSE IF PrefixNodes(res.oid) = {}
    THEN Append(nodes, TreeNode(res.name, 0, res.oid, TRUE, 1))
    ELSE LET node == LongestPrefixByOID(res.oid)
             path == buildGroupPath(node, walkRootOID)
             current == Navigate([nodes |-> nodes, at |-> 0], path)
             suffix == SubSeq(res.oid, Len(node.oid) + 1, Len(res.oid))
         IN  IF Len(suffix) > 0
             THEN LET mibGroup == FindOrCreate(current, node.name, node.oid)
                  IN  Append(mibGroup.nodes,
                             TreeNode(formatSuffix(suffix), mibGroup.at,
                                      res.oid, TRUE,
                                      DepthOf(mibGroup.nodes, mibGroup.at)
                                          + 1))
             ELSE Append(current.nodes,
                         TreeNode(node.name, current.at, res.oid, TRUE,
                                  DepthOf(current.nodes, current.at) + 1))

TreeFrame ==
    UNCHANGED <<snmp, walk, walkStatus, history, status, tableData, sessions,
                walks, cmds, msgs, nConn, nOps, nDisc, clientCalls, crashed,
                lim, tw>>

\* buildResultTree (part_000:31-42) on a group that has no results yet
rebuildTree ==
    /\ ~rt.started
    /\ \E root \in WalkRoots :
           rt' = [started |-> TRUE, root |-> root, nodes |-> <<>>,
                  ins |-> <<>>]
    /\ TreeFrame

\* one result more for the group: the loop of buildResultTree, or of
\* appendResults in tree mode (result_pane.go:73-77)
TreeInsert(res) ==
    /\ rt.started
    /\ Len(rt.ins) < TreeInserts
    /\ rt' = [rt EXCEPT
                 !.nodes = insertResultIntoTree(rt.nodes, res, rt.root),
                 !.ins = Append(@, res)]
    /\ TreeFrame

InitTree ==
    /\ rt = NoResultTree
    /\ tw = NoTableWalk
    /\ lim = Limits(0, 0, 0, 0, 0)
    /\ snmp = Nil
    /\ walk = Nil
    /\ walkStatus = ""
    /\ history = [groups |-> <<>>, cursor |-> 0, added |-> 0]
    /\ status = NoStatus
    /\ tableData = "none"
    /\ sessions = <<>>
    /\ walks = <<>>
    /\ cmds = EmptyBag
    /\ msgs = EmptyBag
    /\ nConn = 0
    /\ nOps = 0
    /\ nDisc = 0
    /\ clientCalls = 0
    /\ crashed = FALSE

StepTree ==
    \/ rebuildTree
    \/ \E res \in TreeResults : TreeInsert(res)

SpecTree == InitTree /\ [][StepTree]_vars

\* the children of a node of the tree, 0 for the root
Children(at) == {i \in 1..Len(rt.nodes) : rt.nodes[i].parent = at}

\* a branch: a node that holds no result, or that holds children
IsBranch(i) == ~rt.nodes[i].leaf \/ Children(i) # {}

\* the positions in rt.ins of the instances of a column: results some way
\* below the node that LongestPrefixByOID finds for them
InstancesOf(col) ==
    {k \in 1..Len(rt.ins) :
        /\ rt.ins[k].parses
        /\ PrefixNodes(rt.ins[k].oid) # {}
        /\ LongestPrefixByOID(rt.ins[k].oid) = col
        /\ Len(rt.ins[k].oid) > Len(col.oid)}

\* the branches of the tree that carry a column's name
BranchesOf(col) ==
    {i \in 1..Len(rt.nodes) : IsBranch(i) /\ rt.nodes[i].name = col.name}

RECURSIVE InsertAll(_, _, _)
InsertAll(nodes, results, walkRootOID) ==
    IF results = <<>> THEN nodes
    ELSE InsertAll(insertResultIntoTree(nodes, results[1], walkRootOID),
                   Tail(results), walkRootOID)

buildResultTree(results, walkRootOID) == InsertAll(<<>>, results, walkRootOID)

\* the number of nodes above a node, the root not counted
RECURSIVE Level(_, _)
Level(nodes, i) ==
    IF nodes[i].parent = 0 THEN 0 ELSE 1 + Level(nodes, nodes[i].parent)

\* flattenResultNode reaches a node when all nodes above it are expanded
RECURSIVE Reached(_, _)
Reached(nodes, i) ==
    IF nodes[i].parent = 0 THEN TRUE
    ELSE /\ nodes[nodes[i].parent].expanded
         /\ Reached(nodes, nodes[i].parent)

\* flattenResultTree (part_000:194-215), as called by rebuildTreeRows: the
\* nodes it reaches take the depth of their row
flattenResultTree(nodes) ==
    [i \in 1..Len(nodes) |->
        IF Reached(nodes, i) THEN [nodes[i] EXCEPT !.depth = Level(nodes, i)]
        ELSE nodes[i]]

\* the loop of appendResults that takes the results from the start of
\* g.results
appendLoopFromStart(nodes, results, n, walkRootOID) ==
    InsertAll(nodes, [i \in 1..n |-> results[i]], walkRootOID)

\* the loop of appendResults (result_pane.go:74-76): results is g.results
\* after the append, n the length of the batch
appendLoop(nodes, results, n, walkRootOID) ==
    InsertAll(nodes,
              [i \in 1..n |-> results[Len(results) - n + i]],
              walkRootOID)

\* the batches a walk below ifTable can bring, with a result that does
\* not parse and one on a column's own OID among them
BatchPool == {r \in TreeResults : r.name \notin {"2.5", "sysDescr.0"}}

Batches ==
    UNION {[1..n -> BatchPool] : n \in 1..BatchLen}

\* resultModel.appendResults (result_pane.go:65-79)
TreeAppendResults(batch) ==
    /\ Len(rt.ins) + Len(batch) <= BatchResults
    /\ rt' = [rt EXCEPT
                 !.ins = @ \o batch,
                 !.nodes = IF rt.treeMode /\ rt.hasTree
                           THEN flattenResultTree(
                                    appendLoop(rt.nodes, rt.ins \o batch,
                                               Len(batch), rt.root))
                           ELSE @,
                 !.inc = IF rt.treeMode /\ rt.hasTree THEN @ + 1 ELSE @]
    /\ TreeFrame

\* resultModel.toggleTreeMode (result_pane.go:160-166) with rebuildTree
toggleTreeMode ==
    /\ rt' = IF rt.treeMode
             THEN [rt EXCEPT !.treeMode = FALSE]
             ELSE [rt EXCEPT
                      !.treeMode = TRUE,
                      !.hasTree = TRUE,
                      !.nodes = flattenResultTree(
                                    buildResultTree(rt.ins, rt.root)),
                      !.inc = 0]
    /\ TreeFrame

\* resultModel.toggleTreeNode (result_pane.go:190-204) on the node of a
\* row of the list
toggleTreeNode(i) ==
    /\ rt.treeMode
    /\ rt.hasTree
    /\ Reached(rt.nodes, i)
    /\ Children(i) # {}
    /\ rt' = [rt EXCEPT
                 !.nodes = flattenResultTree(
                               [@ EXCEPT ![i].expanded = ~@])]
    /\ TreeFrame

\* the group a walk has just added: resetView builds the tree of no
\* results when the pane is in tree mode
InitTreeBatch ==
    /\ \E root \in WalkRoots, mode \in BOOLEAN :
           rt = [started |-> TRUE, root |-> root, nodes |-> <<>>,
                 ins |-> <<>>, treeMode |-> mode, hasTree |-> mode,
                 inc |-> 0]
    /\ tw = NoTableWalk
    /\ lim = Limits(0, 0, 0, 0, 0)
    /\ snmp = Nil
    /\ walk = Nil
    /\ walkStatus = ""
    /\ history = [groups |-> <<>>, cursor |-> 0, added |-> 0]
    /\ status = NoStatus
    /\ tableData = "none"
    /\ sessions = <<>>
    /\ walks = <<>>
    /\ cmds = EmptyBag
    /\ msgs = EmptyBag
    /\ nConn = 0
    /\ nOps = 0
    /\ nDisc = 0
    /\ clientCalls = 0
    /\ crashed = FALSE

StepTreeBatch ==
    \/ \E batch \in Batches : TreeAppendResults(batch)
    \/ toggleTreeMode
    \/ \E i \in 1..Len(rt.nodes) : toggleTreeNode(i)

SpecTreeBatch == InitTreeBatch /\ [][StepTreeBatch]_vars

\* the shape of a tree: its nodes with their names, parents and results,
\* in the order of the children lists
Shape(nodes) ==
    [i \in 1..Len(nodes) |->
        [name |-> nodes[i].name, parent |-> nodes[i].parent,
         oid |-> nodes[i].oid, leaf |-> nodes[i].leaf]]

\* C21: in tree mode the tree of the pane, grown batch by batch, has the
\* shape of the tree buildResultTree makes of all results of the group at
\* once, whatever the batches were.
C21_IncrementallyStable ==
    (rt.treeMode /\ rt.hasTree) =>
        Shape(rt.nodes) = Shape(buildResultTree(rt.ins, rt.root))

\* two batches went into the tree one after the other, the second with two
\* results, and the tree has a branch and leaves
C21_Witness ==
    /\ rt.treeMode
    /\ rt.inc >= 2
    /\ Len(rt.ins) = 3
    /\ \E i \in 1..Len(rt.nodes) : ~rt.nodes[i].leaf
    /\ \E i \in 1..Len(rt.nodes) : rt.nodes[i].name = "1"
    /\ \E i \in 1..Len(rt.nodes) : rt.nodes[i].name = "2"

\* a result insertResultIntoTree cannot place: its OID does not parse, or no
\* node of the MIB is a prefix of it
Unresolvable(res) == ~res.parses \/ PrefixNodes(res.oid) = {}

\* C22: inserting a result whose OID does not parse or matches no node of
\* the MIB adds exactly one node, a leaf that carries the result and is a
\* child of the root "results", and leaves every other node as it was.
C22_UnresolvableFlatLeaf ==
    [][\A res \in TreeResults :
          (/\ rt.started
           /\ rt'.started
           /\ rt'.ins = Append(rt.ins, res)
           /\ Unresolvable(res))
              => /\ Len(rt'.nodes) = Len(rt.nodes) + 1
                 /\ SubSeq(rt'.nodes, 1, Len(rt.nodes)) = rt.nodes
                 /\ rt'.nodes[Len(rt'.nodes)].parent = 0
                 /\ rt'.nodes[Len(rt'.nodes)].leaf
                 /\ rt'.nodes[Len(rt'.nodes)].name = res.name
                 /\ rt'.nodes[Len(rt'.nodes)].oid = res.oid]_vars

\* both kinds were inserted into a tree that had branches already
C22_Witness ==
    /\ rt.started
    /\ Len(rt.ins) = 3
    /\ ~Unresolvable(rt.ins[1])
    /\ ~rt.ins[2].parses
    /\ rt.ins[3].parses /\ Unresolvable(rt.ins[3])
    /\ \E i \in 1..Len(rt.nodes) : ~rt.nodes[i].leaf
    /\ Cardinality({i \in 1..Len(rt.nodes) :
                       rt.nodes[i].parent = 0 /\ rt.nodes[i].leaf}) = 2

(***************************************************************************)
(* Disconnects of any session: nil, the sessions of OpsSessions, and a     *)
(* session whose client has no Conn.  The model holds no session or the    *)
(* one a ConnectCmd would have made.                                       *)
(***************************************************************************)
DiscSessions ==
    OpsSessions \o
    << [connected |-> TRUE, client |-> TRUE, connOpen |-> FALSE,
        closes |-> 0] >>

InitDisconnect ==
    /\ tw = NoTableWalk
    /\ rt = NoResultTree
    /\ lim = Limits(0, 0, 0, 0, DiscCalls)
    /\ snmp \in {Nil, 4}
    /\ walk = Nil
    /\ walkStatus = ""
    /\ history = [groups |-> <<>>, cursor |-> 0, added |-> 0]
    /\ status = NoStatus
    /\ tableData = "none"
    /\ sessions = DiscSessions
    /\ walks = <<>>
    /\ cmds = EmptyBag
    /\ msgs = EmptyBag
    /\ nConn = 0
    /\ nOps = 0
    /\ nDisc = 0
    /\ clientCalls = 0
    /\ crashed = FALSE

\* A caller hands DisconnectCmd the session s.
CallDisconnect(s) ==
    /\ nDisc < lim.discs
    /\ cmds' = BagAdd(cmds, [type |-> "disconnect", sess |-> s])
    /\ nDisc' = nDisc + 1
    /\ UNCHANGED <<snmp, walk, walkStatus, history, status, tableData,
                   sessions, walks, msgs, nConn, nOps, clientCalls, crashed,
                   lim, tw, rt>>

StepDisconnect ==
    \/ \E s \in {Nil} \cup DOMAIN sessions : CallDisconnect(s)
    \/ snmpDisconnect
    \/ \E c \in BagToSet(cmds) : DisconnectCmd(c.sess)
    \/ \E msg \in BagToSet(msgs) : UpdateDisconnectMsg(msg)

SpecDisconnect == InitDisconnect /\ [][StepDisconnect]_vars

\* The step runs the command of DisconnectCmd(s).
RunsDisconnect(s) ==
    /\ BagIn([type |-> "disconnect", sess |-> s], cmds)
    /\ cmds' = BagDel(cmds, [type |-> "disconnect", sess |-> s])

\* what the program has of a session
Fields(r) ==
    [connected |-> r.connected, client |-> r.client, connOpen |-> r.connOpen]

\* C23: a disconnect of any session - nil, without client, without
\* transport, open, or closed before - fails nowhere, hands back one
\* DisconnectMsg and leaves that session's transport closed and all else
\* of the sessions as it was, so that a second disconnect changes nothing;
\* handling the DisconnectMsg leaves the model without session and walk,
\* and handling a second one changes nothing.
C23_DisconnectIdempotent ==
    [][/\ ~crashed'
       /\ \A s \in {Nil} \cup DOMAIN sessions :
              RunsDisconnect(s) =>
                  /\ msgs' = BagAdd(msgs, [type |-> "DisconnectMsg"])
                  /\ \A t \in DOMAIN sessions :
                         Fields(sessions'[t]) =
                             IF t = s
                             THEN [Fields(sessions[t])
                                       EXCEPT !.connOpen = FALSE]
                             ELSE Fields(sessions[t])
                  /\ (s = Nil \/ ~sessions[s].connOpen) =>
                         \A t \in DOMAIN sessions :
                             Fields(sessions'[t]) = Fields(sessions[t])
       /\ HandlesDisconnect =>
              /\ snmp' = Nil
              /\ walk' = Nil
              /\ walkStatus' = ""
              /\ status' = Status("info", "Disconnected", "")
              /\ (snmp = Nil /\ status = Status("info", "Disconnected", ""))
                     => UNCHANGED <<snmp, walk, walkStatus, status, walks,
                                    sessions, history>>]_vars

\* the connected session was closed by one disconnect and Close was called
\* on it again by a second; nil was disconnected too, and all three
\* messages have been handled
C23_Witness ==
    /\ sessions[4].closes = 2
    /\ ~sessions[4].connOpen
    /\ nDisc = 3
    /\ cmds = EmptyBag
    /\ msgs = EmptyBag
    /\ \A t \in DOMAIN sessions : t # 4 => sessions[t].closes = 0
    /\ sessions[3].connOpen
    /\ snmp = Nil
    /\ ~crashed

\* C24: a session whose transport a disconnect has closed is not connected
\* any more: IsConnected is false for it from then on, so that no command
\* makes a request through its client.
C24_ClosedNotConnected ==
    \A s \in DOMAIN sessions : sessions[s].closes > 0 => ~IsConnected(s)

\* the message a simple command hands back is of the command's kind
OutcomeOf(c, m) ==
    \/ c.type = "get" /\ m.type = "GetMsg"
    \/ c.type = "getnext" /\ m.type = "GetNextMsg"
    \/ c.type = "table" /\ m.type = "TableDataMsg"

\* the message carries no result and no row
Empty(m) ==
    IF m.type = "TableDataMsg" THEN m.Rows = 0 ELSE m.Results = <<>>

\* C25: a GET, GETNEXT or table command that runs hands back exactly one
\* message, of its own kind, and the message has an error and neither
\* results nor rows, or it has no error.
C25_OneOutcomeAllOrNothing ==
    [][\A c \in BagToSet(cmds) :
          Runs(c) =>
              \E m \in BagToSet(msgs') :
                  /\ msgs' = BagAdd(msgs, m)
                  /\ OutcomeOf(c, m)
                  /\ m.Err # ErrNil => Empty(m)]_vars

\* a command has failed on an open transport and another, of another kind,
\* has brought results
C25_Witness ==
    /\ clientCalls = 2
    /\ cmds = EmptyBag
    /\ \E m1, m2 \in BagToSet(msgs) :
           /\ m1.type # m2.type
           /\ m1.Err = ErrTransport /\ Empty(m1)
           /\ m2.Err = ErrNil /\ ~Empty(m2)

\* C26: once the context of a walk is cancelled, a call of walkFn that
\* starts hands back the cancellation error and the walk primitive
\* returns, the batch and the count of accepted values grow no more, and
\* the producer can take its step at every send, whether the queue has
\* room or not.
C26_CooperativeCancel ==
    /\ [](\A w \in Walks :
             (walks[w].ctxDone /\ walks[w].pc \in {"push", "flush", "term"})
                 => ENABLED ProducerStep(w))
    /\ [][\A w \in Walks :
             walks[w].ctxDone =>
                 /\ walks'[w].nAcc = walks[w].nAcc
                 /\ Len(walks'[w].batch) <= Len(walks[w].batch)
                 /\ walks'[w].n > walks[w].n =>
                        /\ walks'[w].err = ErrCanceled
                        /\ walks'[w].pc = "flush"]_vars

\* after the cancellation the producer got past a send and the next call
\* of walkFn was refused: one value more handed over than accepted
C26_Witness ==
    \E w \in Walks :
        /\ walks[w].ctxDone
        /\ walks[w].n = walks[w].nAcc + 1
        /\ walks[w].nAcc >= walkBatchSize
        /\ walks[w].err = ErrCanceled
        /\ walks[w].pc = "done"

\* The values walkFn of walk w has appended to its batch, in order: a call
\* that is refused ends the walk, so they are the first nAcc handed over.
AcceptedSeq(w) == [k \in 1..walks[w].nAcc |-> <<w, k>>]

\* The values of the results the consumer has put into the groups of walk
\* w, in the order of the groups and of their results.
RECURSIVE ConsumedOf(_, _)
ConsumedOf(w, gs) ==
    IF gs = <<>> THEN <<>>
    ELSE (IF Head(gs).owner = w
          THEN [i \in 1..Len(Head(gs).results) |-> Head(gs).results[i].OID]
          ELSE <<>>) \o ConsumedOf(w, Tail(gs))

\* C27: for a cancelled walk, whichever case the producer's selects took,
\* the values the consumer has received are a prefix of the values walkFn
\* accepted, the batches still queued continue that prefix without a gap,
\* and the results the consumer has stored are a prefix of those
\* received: in order, none twice, none after a dropped one.
C27_CancelledDeliveredPrefix ==
    \A w \in Walks :
        walks[w].ctxDone =>
            /\ IsPrefix(Delivered(w) \o Concat(walks[w].ch), AcceptedSeq(w))
            /\ IsPrefix(ConsumedOf(w, history.groups), Delivered(w))

\* a cancelled walk has ended; the consumer has stored a full batch of it
\* and the batch accepted after that was dropped at a select
C27_Witness ==
    \E w \in Walks :
        /\ walks[w].ctxDone
        /\ walks[w].pc = "done"
        /\ walks[w].ch = <<>>
        /\ TerminalHandled(w)
        /\ Len(ConsumedOf(w, history.groups)) >= walkBatchSize
        /\ ConsumedOf(w, history.groups) = Delivered(w)
        /\ Len(Delivered(w)) < walks[w].nAcc

(***************************************************************************)
(* The memory behind the batches of one walk (ops.go:117-152).  A slice is *)
(* an array and a length; arrs lists the arrays allocated so far, each as  *)
(* long as its capacity, free slots holding Nil.  batch is the producer's  *)
(* slice (arr 0: the nil slice), ch the queue of slices sent, each with    *)
(* snap, its contents at the send, which no code reads; held is the slice  *)
(* of the WalkBatchMsg on its way to Update, recv lists what Update read   *)
(* from each slice it handled, with that snap.                             *)
(***************************************************************************)
\* the contents of a slice
Contents(p, sl) == [i \in 1..sl.len |-> p.arrs[sl.arr][i]]

\* the capacity of a slice
Cap(p, sl) == IF sl.arr = 0 THEN 0 ELSE Len(p.arrs[sl.arr])

\* append(batch, pdu): in place while the array has room, else into a new
\* array of twice the capacity
GoAppend(p, pdu) ==
    IF p.batch.len < Cap(p, p.batch)
    THEN [p EXCEPT !.arrs[p.batch.arr][p.batch.len + 1] = pdu,
                   !.batch.len = @ + 1]
    ELSE LET cap == IF Cap(p, p.batch) = 0 THEN 1 ELSE 2 * Cap(p, p.batch)
             new == [i \in 1..cap |->
                        IF i <= p.batch.len THEN p.arrs[p.batch.arr][i]
                        ELSE IF i = p.batch.len + 1 THEN pdu ELSE Nil]
         IN  [p EXCEPT !.arrs = Append(@, new),
                       !.batch = [arr |-> Len(p.arrs) + 1,
                                  len |-> p.batch.len + 1]]

\* ch <- walkBatch{pdus: batch}: the producer's own slice is sent
SendUncloned(p) ==
    [p EXCEPT !.ch = Append(@, [arr |-> p.batch.arr, len |-> p.batch.len,
                                snap |-> Contents(p, p.batch)])]

\* b := slices.Clone(batch); ch <- walkBatch{pdus: b} (ops.go:125-128,
\* 140-143): a new array with the contents of batch is sent
SendClone(p) ==
    [p EXCEPT !.arrs = Append(@, Contents(p, p.batch)),
              !.ch = Append(@, [arr |-> Len(p.arrs) + 1, len |-> p.batch.len,
                                snap |-> Contents(p, p.batch)])]

CloneFrame ==
    UNCHANGED <<snmp, walk, walkStatus, history, status, tableData, sessions,
                cmds, msgs, nConn, nOps, nDisc, clientCalls, crashed,
                lim, tw, rt>>

\* walkFn up to the select (ops.go:120-126)
CloneWalkFn ==
    /\ walks[1].pc = "walk"
    /\ walks[1].n < CloneVals
    /\ IF walks[1].ctxDone
       THEN walks' = <<[walks[1] EXCEPT !.n = @ + 1, !.pc = "flush"]>>
       ELSE LET p == GoAppend(walks[1], <<1, walks[1].n + 1>>)
            IN  walks' = <<[p EXCEPT !.n = @ + 1,
                                     !.pc = IF p.batch.len >= walkBatchSize
                                            THEN "push" ELSE "walk"]>>
    /\ CloneFrame

\* the send of walkFn and batch = batch[:0] (ops.go:127-132)
CloneWalkFnSend ==
    /\ walks[1].pc = "push"
    /\ \/ /\ Len(walks[1].ch) < walkChanCap
          /\ walks' = <<[SendClone(walks[1]) EXCEPT !.batch.len = 0,
                                                    !.pc = "walk"]>>
       \/ /\ walks[1].ctxDone
          /\ walks' = <<[walks[1] EXCEPT !.pc = "flush"]>>
    /\ CloneFrame

\* doWalk returns (ops.go:137)
CloneDoWalkEnd ==
    /\ walks[1].pc = "walk"
    /\ walks' = <<[walks[1] EXCEPT !.pc = "flush"]>>
    /\ CloneFrame

\* Flush remaining results (ops.go:139-146)
CloneFlush ==
    /\ walks[1].pc = "flush"
    /\ \/ /\ walks[1].batch.len = 0
          /\ walks' = <<[walks[1] EXCEPT !.pc = "done"]>>
       \/ /\ walks[1].batch.len > 0
          /\ Len(walks[1].ch) < walkChanCap
          /\ walks' = <<[SendClone(walks[1]) EXCEPT !.pc = "done"]>>
       \/ /\ walks[1].batch.len > 0
          /\ walks[1].ctxDone
          /\ walks' = <<[walks[1] EXCEPT !.pc = "done"]>>
    /\ CloneFrame

\* WalkSession.Cancel, by ESC or a disconnect
CloneCancel ==
    /\ ~walks[1].ctxDone
    /\ walks' = <<[walks[1] EXCEPT !.ctxDone = TRUE]>>
    /\ CloneFrame

\* WaitWalkCmd receives a batch and returns it in a WalkBatchMsg
\* (ops.go:161-171); there is one WaitWalkCmd at a time
CloneReceive ==
    /\ Len(walks[1].ch) > 0
    /\ walks[1].held = <<>>
    /\ walks' = <<[walks[1] EXCEPT !.ch = Tail(@),
                                   !.held = <<Head(walks[1].ch)>>]>>
    /\ CloneFrame

\* handleWalkBatch ranges over the pdus of the message (app_snmp.go:252-257)
CloneHandle ==
    /\ walks[1].held # <<>>
    /\ walks' = <<[walks[1] EXCEPT
                      !.held = <<>>,
                      !.recv = Append(@, [read |-> Contents(walks[1],
                                                            walks[1].held[1]),
                                          snap |-> walks[1].held[1].snap])]>>
    /\ CloneFrame

InitClone ==
    /\ walks = << [pc |-> "walk", n |-> 0, arrs |-> <<>>,
                   batch |-> [arr |-> 0, len |-> 0], ch |-> <<>>,
                   held |-> <<>>, recv |-> <<>>, ctxDone |-> FALSE] >>
    /\ tw = NoTableWalk
    /\ rt = NoResultTree
    /\ lim = Limits(1, 0, CloneVals, 0, 0)
    /\ snmp = Nil
    /\ walk = Nil
    /\ walkStatus = ""
    /\ history = [groups |-> <<>>, cursor |-> 0, added |-> 0]
    /\ status = NoStatus
    /\ tableData = "none"
    /\ sessions = <<>>
    /\ cmds = EmptyBag
    /\ msgs = EmptyBag
    /\ nConn = 0
    /\ nOps = 0
    /\ nDisc = 0
    /\ clientCalls = 0
    /\ crashed = FALSE

StepClone ==
    \/ CloneWalkFn
    \/ CloneWalkFnSend
    \/ CloneDoWalkEnd
    \/ CloneFlush
    \/ CloneCancel
    \/ CloneReceive
    \/ CloneHandle

SpecClone == InitClone /\ [][StepClone]_vars

\* C28: a batch on the queue holds what it held when it was sent, whatever
\* the producer has appended since, and what the consumer reads from a
\* batch it received is what the batch held when it was sent.
C28_PushedBatchUnchanged ==
    /\ \A i \in 1..Len(walks[1].ch) :
           Contents(walks[1], walks[1].ch[i]) = walks[1].ch[i].snap
    /\ \A i \in 1..Len(walks[1].held) :
           Contents(walks[1], walks[1].held[i]) = walks[1].held[i].snap
    /\ \A i \in 1..Len(walks[1].recv) :
           walks[1].recv[i].read = walks[1].recv[i].snap

\* a batch waits on the queue and another in a message while the
\* producer has written into its own buffer again, after the consumer
\* read an earlier batch
C28_Witness ==
    /\ Len(walks[1].ch) = 1
    /\ Len(walks[1].held) = 1
    /\ Len(walks[1].recv) >= 1
    /\ walks[1].batch.len >= 1
    /\ walks[1].ch[1].snap # <<>>
    /\ walks[1].ch[1].arr # walks[1].batch.arr
    /\ Contents(walks[1], walks[1].batch)[1] # walks[1].ch[1].snap[1]

\* the WaitWalkCmd commands in flight on the queue of walk w
Waits(w, b) == CopiesIn([type |-> "wait", ch |-> w], b)

\* C29: at any time at most one WaitWalkCmd is outstanding on the queue of
\* a walk, whatever was disconnected, connected or started in between.
C29_OneWaitOutstanding ==
    \A w \in Walks : Waits(w, cmds) <= 1


(***************************************************************************)
(* The end of a walk: Update handles the terminal WalkBatchMsg while a     *)
(* walk is held (app_snmp.go:268-297).                                     *)
(***************************************************************************)
\* Update handles msg, the terminal message of a walk that ended with an
\* error, while the model holds a walk.
WalkEndsWith(msg) ==
    /\ msg.type = "WalkBatchMsg"
    /\ msg.Done
    /\ msg.Err # ErrNil
    /\ walk # Nil
    /\ handleWalkBatch(msg)

\* The positions of the groups of walk w in history h.
GroupsOf(h, w) == {i \in DOMAIN h.groups : h.groups[i].owner = w}

\* C30: a walk that ends cancelled leaves the error of its own result group
\* nil and reports the number of results of that group; a walk that ends
\* with another error has that error, unmodified, on its own group.
C30_EndRecordedOnOwnGroup ==
    [][\A msg \in BagToSet(msgs) :
          WalkEndsWith(msg) =>
              \A i \in GroupsOf(history', msg.src) :
                  LET g == history'.groups[i]
                  IN  IF msg.Err = ErrCanceled
                      THEN /\ g.err = ErrNil
                           /\ status' = Status("info", "Walk cancelled",
                                               Len(g.results))
                      ELSE g.err = msg.Err]_vars

(***************************************************************************)
(* The operations that use a session (app_snmp.go:13-25, 63-142).          *)
(***************************************************************************)
\* The GET, GETNEXT and table fetch commands in flight on session s.
SimpleOps(s) ==
    {c \in BagToSet(cmds) :
        c.type \in {"get", "getnext", "table"} /\ c.sess = s}

\* The number of operations that use session s: the commands in flight,
\* each copy counted, and the walk producers that have not returned.
InUse(s) ==
    LET RECURSIVE Sum(_)
        Sum(S) == IF S = {} THEN 0
                  ELSE LET c == CHOOSE x \in S : TRUE
                       IN  CopiesIn(c, cmds) + Sum(S \ {c})
    IN  Sum(SimpleOps(s)) + Cardinality(Running(s))

\* C31: a session is used by at most one operation at any moment: one GET,
\* GETNEXT or table fetch in flight, or one running walk producer.
C31_OneOperationPerSession ==
    \A s \in DOMAIN sessions : InUse(s) <= 1

\* C32: handling a GET outcome never fails: whatever the message carries,
\* the handler ends normally, adds exactly one group to the history and sets
\* a status.
C32_GetOutcomeHandled ==
    [][\A msg \in BagToSet(msgs) :
          (msg.type = "GetMsg" /\ handleGetResult(msg)) =>
              /\ ~crashed'
              /\ history'.added = history.added + 1
              /\ status'.text \in {"GET ok", "GET failed"}]_vars

\* The sessions whose transport is open.
OpenTransports == {s \in DOMAIN sessions : sessions[s].connOpen}

\* C33: at most one session transport is open at any time: a session that a
\* successful connect replaces does not stay open.
C33_OneTransportOpen ==
    Cardinality(OpenTransports) <= 1

(***************************************************************************)
(* The branches above a leaf of the result tree, and the schema ancestors  *)
(* of the node a result resolves to.                                       *)
(***************************************************************************)
\* The names of the branches from the synthetic root down to the parent of
\* node i of the result tree.
RECURSIVE BranchPath(_)
BranchPath(i) ==
    IF rt.nodes[i].parent = 0 THEN <<>>
    ELSE BranchPath(rt.nodes[i].parent)
             \o <<rt.nodes[rt.nodes[i].parent].name>>

\* The schema ancestors of node n that lie strictly below the walk root.
AncestorsBelow(n, root) ==
    {a \in MibNodes :
        /\ Len(a.oid) < Len(n.oid)
        /\ HasPrefix(n.oid, a.oid)
        /\ ~(root # <<>> /\ HasPrefix(root, a.oid))}

\* A set of nodes of one schema path, from the top down.
TopDown(S) ==
    [k \in 1..Cardinality(S) |->
        CHOOSE a \in S :
            Cardinality({b \in S : Len(b.oid) < Len(a.oid)}) = k - 1]

\* Result res resolves to a schema node.
Resolved(res) == res.parses /\ PrefixNodes(res.oid) # {}

\* The leaves of the result tree that carry result res.
LeavesOf(res) ==
    {i \in 1..Len(rt.nodes) : rt.nodes[i].leaf /\ rt.nodes[i].oid = res.oid}

RECURSIVE NodePath(_, _)
NodePath(nodes, i) ==
    IF nodes[i].parent = 0 THEN <<nodes[i].name>>
    ELSE NodePath(nodes, nodes[i].parent) \o <<nodes[i].name>>

\* The branches of tree nodes that are collapsed, by their paths.
Collapsed(nodes) ==
    {NodePath(nodes, i) : i \in {j \in 1..Len(nodes) :
                                    ~nodes[j].leaf /\ ~nodes[j].expanded}}

\* The step inserts further results or switches tree mode: it is not the
\* user's expanding or collapsing of a node.
InsertsOrRebuilds ==
    \/ Len(rt'.ins) > Len(rt.ins)
    \/ rt'.treeMode # rt.treeMode

\* C35: a branch the user collapsed stays collapsed when further results
\* are inserted and when the tree of the same results is rebuilt.
C35_CollapsePreserved ==
    [][(rt.hasTree /\ InsertsOrRebuilds) =>
           Collapsed(rt.nodes) \subseteq Collapsed(rt'.nodes)]_vars

(***************************************************************************)
(* resultTreeNode.resultCount (part_000:217-227): the number of leaf       *)
(* results in the subtree of node i; node 0 is the synthetic root.  A node *)
(* with a result counts 1 whatever hangs below it.                         *)
(***************************************************************************)
RECURSIVE resultCount(_, _)
RECURSIVE SumCounts(_, _)
resultCount(nodes, i) ==
    IF i # 0 /\ nodes[i].leaf THEN 1
    ELSE SumCounts(nodes, {c \in 1..Len(nodes) : nodes[c].parent = i})

SumCounts(nodes, S) ==
    IF S = {} THEN 0
    ELSE LET c == CHOOSE x \in S : TRUE
         IN  resultCount(nodes, c) + SumCounts(nodes, S \ {c})

\* The insertions of result res.
InsertionsOf(res) == {k \in 1..Len(rt.ins) : rt.ins[k] = res}

\* C36: after any sequence of insertions every node with a result has no
\* children, every inserted result is attached to exactly one leaf, and
\* resultCount of the root is the number of results inserted.
C36_BranchOrLeaf ==
    rt.started =>
        /\ \A i \in 1..Len(rt.nodes) : rt.nodes[i].leaf => Children(i) = {}
        /\ \A res \in TreeResults :
               Cardinality(LeavesOf(res)) = Cardinality(InsertionsOf(res))
        /\ resultCount(rt.nodes, 0) = Len(rt.ins)

\* The names of the columns of table tbl that its index definition names.
IndexColumns(tbl) ==
    {tbl.cols[i].name : i \in 1..Len(tbl.cols)} \cap tbl.index

\* C37: in every schema built for a table, the first indexCols columns of
\* the ordered column list are exactly the columns of the table that its
\* effective index definition names.
C37_LeadingIndexColumns ==
    \A b \in 1..Len(tw.built) :
        LET schema == tw.built[b]
        IN  /\ schema.indexCols <= Len(schema.colList)
            /\ {schema.colList[i].name : i \in 1..schema.indexCols}
                   = IndexColumns(tw.tbl)

\* C38: in the rows of a table fetch a cell is the placeholder "-" exactly
\* when no value was received for its row and column; a received value
\* stands in the cell as formatted, the last one received.
C38_PlaceholderIffMissing ==
    tw.started =>
        LET rows == buildTableRows(tw.coll)
        IN  \A r \in 1..Len(rows) :
                \A i \in 1..Len(rows[r]) :
                    LET got == Received(tw.coll.rowOrder[r], i)
                    IN  /\ (rows[r][i] = "-") <=> (got = {})
                        /\ got # {} =>
                               rows[r][i] =
                                   LastValue(tw.coll.rowOrder[r], i)
====
